---- MODULE Spec2Model ----
(***************************************************************************)
(* protoc-gen-go-hashpb: canonical hashing of protobuf messages.           *)
(*                                                                         *)
(* Two strategies feed a hash.Hash with the canonical bytes of a message:  *)
(*   - the reflective traversal of hashpb.go (Sum, Sum64), and             *)
(*   - the per-type helper routines emitted by internal/generator          *)
(*     (the HashPB method and the <type>_hashpb_sum helpers).              *)
(* A hasher is modelled by the sequence of bytes it has absorbed; a digest *)
(* is the opaque pair (algorithm, absorbed bytes).                         *)
(***************************************************************************)
EXTENDS Integers, Sequences, FiniteSets, TLC

VARIABLES schema, ignore, withHasher, m1, m2, pc, hasher, ret, log, calls,
          walk, gen

vars ==
    <<schema, ignore, withHasher, m1, m2, pc, hasher, ret, log, calls, walk,
      gen>>

\* ------------------------------------------------------------------ bounds
\* most fields populated in one enumerated TestAllTypes message
MaxPopulated == 2
\* longest repeated field
MaxListLen == 2
\* deepest chain of NestedTestAllTypes.child
MaxDepth == 2
\* most fields populated in the message a counterpart is derived from
MaxShared == 1
\* the calls made one after another with the same options
MaxCalls == 2
\* the NestedTestAllTypes messages on the heap
MaxNodes == 2
\* the frames of hash the goroutine's stack has room for beyond MaxNodes
StackRoom == 1
\* the message types of the files given to the plugin
MaxTypes == 2

\* ------------------------------------------------------------ value domains
StrA == <<97>>
StrB == <<98>>
Int32Values == {1, -1}
EnumValues == {0, 2}
ListElems == {1, 2}

\* ---------------------------------------------------------------- protowire
RECURSIVE UVarint(_)
UVarint(v) ==
    IF v < 128 THEN <<v>> ELSE <<(v % 128) + 128>> \o UVarint(v \div 128)

RECURSIVE SignExtGroups(_, _)
SignExtGroups(v, n) ==
    IF n = 0 THEN <<>>
    ELSE <<(v % 128) + 128>> \o SignExtGroups(v \div 128, n - 1)

\* protowire.AppendVarint(nil, x) where x is the uint64 conversion of the
\* integer v: a negative v stands for 2^64 + v (two's complement), which
\* takes nine continuation groups and a final group holding bit 63.
AppendVarint(v) ==
    IF v >= 0 THEN UVarint(v) ELSE SignExtGroups(v, 9) \o <<1>>

EncodeBool(b) == IF b THEN 1 ELSE 0

\* A fixed-width integer is the sequence of its bits, lowest first.
\* Word(v, w): the w-bit two's-complement pattern of the number v, which
\* lies in the int32 range: bits 0 to 30 by division, the sign above them
Pow2 == [i \in 1..31 |-> 2^(i - 1)]

Word(v, w) ==
    [i \in 1..w |-> IF i <= 31 THEN (v \div Pow2[i]) % 2
                    ELSE (IF v < 0 THEN 1 ELSE 0)]

Zeros(n) == [i \in 1..n |-> 0]

\* int32(x), uint32(x) of a 64-bit x: the low 32 bits
Low32(x) == SubSeq(x, 1, 32)

\* faulty variant: the upper 32 bits are cleared whatever the sign
SignExtendCleared(x) == x \o Zeros(32)

\* uint64(x) of an int32 or enum x: the sign bit fills the upper 32 bits
SignExtend(x) == x \o [i \in 1..32 |-> x[32]]

\* uint64(x) of a uint32 x
ZeroExtend(x) == x \o Zeros(32)

\* (x >> 7(k-1)) & 0x7f: the k-th group of seven bits; the tenth group
\* holds bit 63 alone
Group(x, k) ==
    IF k = 10 THEN x[64]
    ELSE x[7 * k - 6] + 2 * x[7 * k - 5] + 4 * x[7 * k - 4]
         + 8 * x[7 * k - 3] + 16 * x[7 * k - 2] + 32 * x[7 * k - 1]
         + 64 * x[7 * k]

\* the position of the highest bit of x that is set, 0 if x is zero
HighBit(x) ==
    CHOOSE i \in 0..64 :
        (i = 0 \/ x[i] = 1) /\ \A j \in (i + 1)..64 : x[j] = 0

\* how many times the loop "for x >= 0x80" runs, and the final byte
Used(hi) == IF hi = 0 THEN 1 ELSE (hi + 6) \div 7

\* the continuation bit on every group but the last
Continued(x, n) ==
    [k \in 1..n |-> Group(x, k) + (IF k < n THEN 128 ELSE 0)]

\* protowire.AppendVarint(nil, x) of a uint64 x: seven bits at a time, the
\* continuation bit set while higher bits remain
AppendVarint64(x) == Continued(x, Used(HighBit(x)))

\* faulty variant: the bytes of a string without the length prefix
AppendStringBare(s) == s

\* protowire.AppendString / AppendBytes: varint length, then the raw bytes
AppendString(s) == AppendVarint(Len(s)) \o s

\* ------------------------------------------------------------------- schema
TAT == "cerbos.hashpb.test.TestAllTypes"
NM == "cerbos.hashpb.test.TestAllTypes.NestedMessage"
NTAT == "cerbos.hashpb.test.NestedTestAllTypes"
TATO == "cerbos.hashpb.test.TestAllTypesOptional"

NestedTypeOneof == "cerbos.hashpb.test.TestAllTypes.nested_type"

FD(name, full, number, kind, card, oneof, synthetic, msg, keykind, slot) ==
    [name |-> name, full |-> full, number |-> number, kind |-> kind,
     card |-> card, oneof |-> oneof, synthetic |-> synthetic, msg |-> msg,
     keykind |-> keykind, slot |-> slot]

\* Fields of TestAllTypes in declaration order: standalone_enum is declared
\* before the members of nested_type although its number is higher.  enumNo is
\* the number of standalone_enum: 22 in all_types.proto.
TestAllTypesDecl(enumNo) == <<
    FD("single_int32", "cerbos.hashpb.test.TestAllTypes.single_int32",
       1, "int32", "singular", "", FALSE, "", "", "SingleInt32"),
    FD("single_string", "cerbos.hashpb.test.TestAllTypes.single_string",
       14, "string", "singular", "", FALSE, "", "", "SingleString"),
    FD("standalone_enum", "cerbos.hashpb.test.TestAllTypes.standalone_enum",
       enumNo, "enum", "singular", "", FALSE, "", "", "StandaloneEnum"),
    FD("single_nested_message",
       "cerbos.hashpb.test.TestAllTypes.single_nested_message",
       18, "message", "singular", NestedTypeOneof, FALSE, NM, "", "NestedType"),
    FD("single_nested_enum",
       "cerbos.hashpb.test.TestAllTypes.single_nested_enum",
       21, "enum", "singular", NestedTypeOneof, FALSE, "", "", "NestedType"),
    FD("repeated_int32", "cerbos.hashpb.test.TestAllTypes.repeated_int32",
       31, "int32", "list", "", FALSE, "", "", "RepeatedInt32"),
    FD("map_string_string", "cerbos.hashpb.test.TestAllTypes.map_string_string",
       58, "string", "map", "", FALSE, "", "string", "MapStringString"),
    FD("map_int32_string", "cerbos.hashpb.test.TestAllTypes.map_int32_string",
       60, "string", "map", "", FALSE, "", "int32", "MapInt32String"),
    FD("map_bool_string", "cerbos.hashpb.test.TestAllTypes.map_bool_string",
       61, "string", "map", "", FALSE, "", "bool", "MapBoolString") >>

NestedMessageFields == <<
    FD("bb", "cerbos.hashpb.test.TestAllTypes.NestedMessage.bb",
       1, "int32", "singular", "", FALSE, "", "", "Bb") >>

NestedTestAllTypesFields == <<
    FD("child", "cerbos.hashpb.test.NestedTestAllTypes.child",
       1, "message", "singular", "", FALSE, NTAT, "", "Child"),
    FD("payload", "cerbos.hashpb.test.NestedTestAllTypes.payload",
       2, "message", "singular", "", FALSE, TAT, "", "Payload") >>

\* proto3 "optional": the field sits alone in a synthetic oneof
TestAllTypesOptionalFields == <<
    FD("single_int32", "cerbos.hashpb.test.TestAllTypesOptional.single_int32",
       1, "int32", "singular",
       "cerbos.hashpb.test.TestAllTypesOptional._single_int32", TRUE,
       "", "", "SingleInt32"),
    FD("single_string", "cerbos.hashpb.test.TestAllTypesOptional.single_string",
       14, "string", "singular",
       "cerbos.hashpb.test.TestAllTypesOptional._single_string", TRUE,
       "", "", "SingleString") >>

\* A message type outside all_types.proto, whose string field has the lowest
\* number: string text = 1; int32 count = 2; int32 extra = 3.
SI == "cerbos.hashpb.test.StringThenInt32"

StringThenInt32Fields == <<
    FD("text", "cerbos.hashpb.test.StringThenInt32.text",
       1, "string", "singular", "", FALSE, "", "", "Text"),
    FD("count", "cerbos.hashpb.test.StringThenInt32.count",
       2, "int32", "singular", "", FALSE, "", "", "Count"),
    FD("extra", "cerbos.hashpb.test.StringThenInt32.extra",
       3, "int32", "singular", "", FALSE, "", "", "Extra") >>

\* TestAllTypes reduced to its integer fields: single_int32 = 1,
\* single_int64 = 2, single_uint32 = 3, standalone_enum = 22
TATI == "cerbos.hashpb.test.TestAllTypes (integer fields)"

IntegerFields == <<
    FD("single_int32", "cerbos.hashpb.test.TestAllTypes.single_int32",
       1, "int32", "singular", "", FALSE, "", "", "SingleInt32"),
    FD("single_int64", "cerbos.hashpb.test.TestAllTypes.single_int64",
       2, "int64", "singular", "", FALSE, "", "", "SingleInt64"),
    FD("single_uint32", "cerbos.hashpb.test.TestAllTypes.single_uint32",
       3, "uint32", "singular", "", FALSE, "", "", "SingleUint32"),
    FD("standalone_enum", "cerbos.hashpb.test.TestAllTypes.standalone_enum",
       22, "enum", "singular", "", FALSE, "", "", "StandaloneEnum") >>

\* Message types outside all_types.proto with a field of a kind that has no
\* case in the switch of writeSingularValue and genSingularField:
\*   WithGroup { int32 before = 1; group Body body = 2; int32 after = 3; }
\*   GroupHolder { WithGroup inner = 1; int32 tail = 2; }
WG == "cerbos.hashpb.test.WithGroup"
GH == "cerbos.hashpb.test.GroupHolder"

WithGroupFields == <<
    FD("before", "cerbos.hashpb.test.WithGroup.before",
       1, "int32", "singular", "", FALSE, "", "", "Before"),
    FD("body", "cerbos.hashpb.test.WithGroup.body",
       2, "group", "singular", "", FALSE, NM, "", "Body"),
    FD("after", "cerbos.hashpb.test.WithGroup.after",
       3, "int32", "singular", "", FALSE, "", "", "After") >>

GroupHolderFields == <<
    FD("inner", "cerbos.hashpb.test.GroupHolder.inner",
       1, "message", "singular", "", FALSE, WG, "", "Inner"),
    FD("tail", "cerbos.hashpb.test.GroupHolder.tail",
       2, "int32", "singular", "", FALSE, "", "", "Tail") >>

\* The schema of all_types.proto (reduced), and the same schema with
\* standalone_enum numbered between the two members of nested_type.
RepoEnumNumber == 22
BetweenEnumNumber == 18 + 1
Schemas == {RepoEnumNumber, BetweenEnumNumber}

RepoFields == TestAllTypesDecl(RepoEnumNumber)
BetweenFields == TestAllTypesDecl(BetweenEnumNumber)

\* md.Fields() / msg.Fields: the fields of a message type, as declared
Fields(S, type) ==
    CASE type = TAT -> (IF S = RepoEnumNumber THEN RepoFields
                        ELSE BetweenFields)
      [] type = NM -> NestedMessageFields
      [] type = NTAT -> NestedTestAllTypesFields
      [] type = TATO -> TestAllTypesOptionalFields
      [] type = SI -> StringThenInt32Fields
      [] type = WG -> WithGroupFields
      [] type = TATI -> IntegerFields
      [] type = GH -> GroupHolderFields

\* ----------------------------------------------------------------- messages
\* A message is [type, v]: v maps each Go struct field (slot) to its value.
\* A pointer is a sequence of length 0 (nil) or 1; a oneof slot holds nil or
\* one wrapper [member, enum, msg]; a map is the sequence of its entries
\* [key, value] in the order in which the container iterates them.
NilMsg == [type |-> "nil"]
IsNil(m) == m.type = "nil"

Wrapper(member, e, msg) == [member |-> member, enum |-> e, msg |-> msg]
Entry(k, v) == [key |-> k, value |-> v]

\* the zero value of a scalar kind
ZeroValue(kind) ==
    CASE kind = "string" -> <<>>
      [] kind = "uint32" -> Zeros(32)
      [] OTHER -> 0

\* protoreflect.Message.Has
Has(msg, fd) ==
    LET x == msg.v[fd.slot] IN
    CASE fd.card \in {"list", "map"} -> Len(x) > 0
      [] fd.card = "singular" /\ fd.oneof # "" /\ ~fd.synthetic ->
            Len(x) > 0 /\ x[1].member = fd.name
      [] fd.card = "singular" /\ fd.oneof # "" /\ fd.synthetic -> Len(x) > 0
      [] fd.card = "singular" /\ fd.oneof = ""
         /\ fd.kind \in {"message", "group"} -> Len(x) > 0
      [] fd.card = "singular" /\ fd.oneof = "" /\ fd.kind = "string" ->
            Len(x) > 0
      [] OTHER -> x # ZeroValue(fd.kind)

\* protoreflect.Message.Get of a populated field
Get(msg, fd) ==
    LET x == msg.v[fd.slot] IN
    CASE fd.card \in {"list", "map"} -> x
      [] fd.card = "singular" /\ fd.oneof # "" /\ ~fd.synthetic ->
            IF fd.kind = "message" THEN x[1].msg[1] ELSE x[1].enum
      [] fd.card = "singular" /\ fd.oneof # "" /\ fd.synthetic -> x[1]
      [] fd.card = "singular" /\ fd.oneof = ""
         /\ fd.kind \in {"message", "group"} -> x[1]
      [] OTHER -> x

\* ------------------------------------------------------- hashpb.go: results
\* One hasher.Write: the bytes, tagged with the number of the field of the
\* top-level message under which they were written.
Ev(top, bytes) == [num |-> top, bytes |-> bytes]
Ok(evs) == [ev |-> evs, err |-> <<>>]
Failed(evs, err) == [ev |-> evs, err |-> err]

RECURSIVE Flatten(_)
Flatten(evs) ==
    IF evs = <<>> THEN <<>> ELSE Head(evs).bytes \o Flatten(Tail(evs))

errInvalidMsg == <<"invalid message">>
errUnsupported == <<"operation not supported by underlying hash function">>

\* ---------------------------------------------------- hashpb.go: traversal
shouldIgnore(ign, fd) ==
    IF fd.oneof # "" /\ fd.oneof \in ign THEN TRUE ELSE fd.full \in ign

\* Go's < on strings: byte-wise lexicographic
RECURSIVE LessStr(_, _)
LessStr(a, b) ==
    IF b = <<>> THEN FALSE
    ELSE IF a = <<>> THEN TRUE
    ELSE IF Head(a) # Head(b) THEN Head(a) < Head(b)
    ELSE LessStr(Tail(a), Tail(b))

compareMapKeys(keykind, a, b) ==
    CASE keykind = "bool" -> ~a /\ b
      [] keykind = "int32" -> a < b
      [] keykind = "string" -> LessStr(a, b)

RECURSIVE insertEntry(_, _, _)
insertEntry(keykind, sorted, e) ==
    IF sorted = <<>> THEN <<e>>
    ELSE IF compareMapKeys(keykind, e.key, Head(sorted).key)
         THEN <<e>> \o sorted
         ELSE <<Head(sorted)>> \o insertEntry(keykind, Tail(sorted), e)

\* faulty variant: the entries are written in the order Range yields them
sortEntriesSkipped(keykind, entries) == entries

\* sort.Slice(entries, compareMapKeys)
RECURSIVE sortEntries(_, _)
sortEntries(keykind, entries) ==
    IF entries = <<>> THEN <<>>
    ELSE insertEntry(keykind,
                     sortEntries(keykind, SubSeq(entries, 1, Len(entries) - 1)),
                     entries[Len(entries)])

RECURSIVE insertNumber(_, _)
insertNumber(sorted, n) ==
    IF sorted = <<>> THEN <<n>>
    ELSE IF n < Head(sorted) THEN <<n>> \o sorted
         ELSE <<Head(sorted)>> \o insertNumber(Tail(sorted), n)

\* sort.Slice(setFields, ascending)
RECURSIVE sortFieldNumbers(_)
sortFieldNumbers(setFields) ==
    IF setFields = <<>> THEN <<>>
    ELSE insertNumber(
             sortFieldNumbers(SubSeq(setFields, 1, Len(setFields) - 1)),
             setFields[Len(setFields)])

RECURSIVE hash(_, _, _, _)
RECURSIVE writeSingularValue(_, _, _, _, _)
RECURSIVE writeEach(_, _, _, _, _)

\* "if err := ...; err != nil { return err }" and then the rest: what r
\* wrote stays written, the rest runs only after success
andThen(r, rest) ==
    IF r.err # <<>> THEN r ELSE Failed(r.ev \o rest.ev, rest.err)

\* the loop of writeListValue and writeMapValue: stops at the first error
writeEach(S, fd, vals, ign, top) ==
    IF vals = <<>> THEN Ok(<<>>)
    ELSE andThen(writeSingularValue(S, fd, Head(vals), ign, top),
                 writeEach(S, fd, Tail(vals), ign, top))

\* faulty variant: a value of a kind without a case is skipped without error
writeSingularValueSkipping(S, fd, v, ign, top) ==
    CASE fd.kind = "bool" -> Ok(<<Ev(top, AppendVarint(EncodeBool(v)))>>)
      [] fd.kind = "enum" ->
            Ok(<<Ev(top, AppendVarint64(SignExtend(Word(v, 32))))>>)
      [] fd.kind = "int32" ->
            Ok(<<Ev(top, AppendVarint64(SignExtend(Low32(Word(v, 64)))))>>)
      [] fd.kind = "uint32" ->
            Ok(<<Ev(top, AppendVarint64(ZeroExtend(Low32(ZeroExtend(v)))))>>)
      [] fd.kind = "int64" -> Ok(<<Ev(top, AppendVarint64(Word(v, 64)))>>)
      [] fd.kind = "string" -> Ok(<<Ev(top, AppendString(v))>>)
      [] fd.kind = "message" -> hash(S, v, ign, top)
      [] OTHER -> Ok(<<>>)

writeSingularValue(S, fd, v, ign, top) ==
    CASE fd.kind = "bool" -> Ok(<<Ev(top, AppendVarint(EncodeBool(v)))>>)
      [] fd.kind = "enum" ->
            Ok(<<Ev(top, AppendVarint64(SignExtend(Word(v, 32))))>>)
      [] fd.kind = "int32" ->
            Ok(<<Ev(top, AppendVarint64(SignExtend(Low32(Word(v, 64)))))>>)
      [] fd.kind = "uint32" ->
            Ok(<<Ev(top, AppendVarint64(ZeroExtend(Low32(ZeroExtend(v)))))>>)
      [] fd.kind = "int64" -> Ok(<<Ev(top, AppendVarint64(Word(v, 64)))>>)
      [] fd.kind = "string" -> Ok(<<Ev(top, AppendString(v))>>)
      [] fd.kind = "message" -> hash(S, v, ign, top)
      [] OTHER -> Failed(<<>>, <<"unsupported field kind", fd.kind>>)

\* faulty variant: the elements are written in ascending order
writeListValueSorted(S, fd, list, ign, top) ==
    writeEach(S, fd, sortFieldNumbers(list), ign, top)

writeListValue(S, fd, list, ign, top) == writeEach(S, fd, list, ign, top)

\* entry.value for each entry
entryValues(entries) == [i \in 1..Len(entries) |-> entries[i].value]

\* faulty variant: each value is written after the encoding of its key
keyWritten(fd, k, top) ==
    Ok(<<Ev(top, CASE fd.keykind = "bool" -> AppendVarint(EncodeBool(k))
                   [] fd.keykind = "int32" -> AppendVarint(k)
                   [] fd.keykind = "string" -> AppendString(k))>>)

RECURSIVE writeEntries(_, _, _, _, _)
writeEntries(S, fd, entries, ign, top) ==
    IF entries = <<>> THEN Ok(<<>>)
    ELSE andThen(keyWritten(fd, Head(entries).key, top),
                 andThen(writeSingularValue(S, fd, Head(entries).value,
                                            ign, top),
                         writeEntries(S, fd, Tail(entries), ign, top)))

writeMapValueWithKeys(S, fd, mapv, ign, top) ==
    IF Len(mapv) = 0 THEN Ok(<<>>)
    ELSE writeEntries(S, fd, sortEntries(fd.keykind, mapv), ign, top)

writeMapValue(S, fd, mapv, ign, top) ==
    IF Len(mapv) = 0 THEN Ok(<<>>)
    ELSE writeEach(S, fd, entryValues(sortEntries(fd.keykind, mapv)),
                   ign, top)

writeValue(S, msg, fd, ign, top) ==
    LET v == Get(msg, fd) IN
    CASE fd.card = "list" -> writeListValue(S, fd, v, ign, top)
      [] fd.card = "map" -> writeMapValue(S, fd, v, ign, top)
      [] OTHER -> writeSingularValue(S, fd, v, ign, top)

\* fmt.Errorf("failed to write value of %q: %w", fd.FullName(), err)
wrapError(fd, r) ==
    IF r.err # <<>>
    THEN Failed(r.ev, <<"failed to write value of", fd.full>> \o r.err)
    ELSE r

\* one round of the loop over setFields: the field's writes carry its number
\* when the message is the top-level one
writeField(S, msg, fd, ign, top) ==
    wrapError(fd, writeValue(S, msg, fd, ign,
                             IF top = 0 THEN fd.number ELSE top))

\* setDescriptors[fn]
descriptorOf(setDescriptors, fn) ==
    CHOOSE d \in setDescriptors : d.number = fn

\* the loop over the sorted numbers of the set fields
RECURSIVE writeFields(_, _, _, _, _, _)
writeFields(S, msg, setDescriptors, setFields, ign, top) ==
    IF setFields = <<>> THEN Ok(<<>>)
    ELSE andThen(writeField(S, msg,
                            descriptorOf(setDescriptors, Head(setFields)),
                            ign, top),
                 writeFields(S, msg, setDescriptors, Tail(setFields),
                             ign, top))

\* faulty variant: a plain scalar field is collected whether or not it is populated
collectSetFieldsScalars(S, msg, ign) ==
    SelectSeq(Fields(S, msg.type),
              LAMBDA fd : /\ ~shouldIgnore(ign, fd)
                          /\ \/ Has(msg, fd)
                             \/ /\ fd.card = "singular" /\ fd.oneof = ""
                                /\ fd.kind # "message")

\* the fields appended to setFields, in descriptor order
collectSetFields(S, msg, ign) ==
    SelectSeq(Fields(S, msg.type),
              LAMBDA fd : ~shouldIgnore(ign, fd) /\ Has(msg, fd))

\* setFields and setDescriptors of the collected fields
numbersOf(set) == [i \in 1..Len(set) |-> set[i].number]
descriptorsOf(set) == {set[i] : i \in 1..Len(set)}

\* the second half of hash: sort the numbers, write the fields
writeSetFields(S, msg, set, ign, top) ==
    writeFields(S, msg, descriptorsOf(set), sortFieldNumbers(numbersOf(set)),
                ign, top)

hash(S, msg, ign, top) ==
    writeSetFields(S, msg, collectSetFields(S, msg, ign), ign, top)

\* ------------------------------------------- internal/generator: generation
RECURSIVE insertField(_, _)
insertField(sorted, f) ==
    IF sorted = <<>> THEN <<f>>
    ELSE IF f.number < Head(sorted).number THEN <<f>> \o sorted
         ELSE <<Head(sorted)>> \o insertField(Tail(sorted), f)

\* sort.Slice(fields, by Desc.Number())
RECURSIVE sortFields(_)
sortFields(fields) ==
    IF fields = <<>> THEN <<>>
    ELSE insertField(sortFields(SubSeq(fields, 1, Len(fields) - 1)),
                     fields[Len(fields)])

\* The emitted statements.  genField guards on the field's own name;
\* genOneOfField guards on the oneof's name and switches over every member.
genField(field) ==
    [op |-> "field", fd |-> field, guard |-> field.full, members |-> <<>>]

\* faulty variant: a case is emitted only for the member the oneof was met at
genOneOfFieldFirstCase(field, msgFields) ==
    [op |-> "oneof", fd |-> field, guard |-> field.oneof,
     members |-> <<field>>]

genOneOfField(field, msgFields) ==
    [op |-> "oneof", fd |-> field, guard |-> field.oneof,
     members |-> SelectSeq(msgFields, LAMBDA f : f.oneof = field.oneof)]

\* the loop of genHelperForMsg over the sorted fields
RECURSIVE genFields(_, _, _)
genFields(fields, oneOfs, msgFields) ==
    IF fields = <<>> THEN <<>>
    ELSE LET field == Head(fields) IN
         IF field.oneof # "" /\ ~field.synthetic
         THEN IF field.oneof \notin oneOfs
              THEN <<genOneOfField(field, msgFields)>>
                   \o genFields(Tail(fields), oneOfs \cup {field.oneof},
                                msgFields)
              ELSE genFields(Tail(fields), oneOfs, msgFields)
         ELSE <<genField(field)>> \o genFields(Tail(fields), oneOfs, msgFields)

\* the body of the helper <type>_hashpb_sum
genHelperForMsg(S, type) ==
    genFields(sortFields(Fields(S, type)), {}, Fields(S, type))

\* hashpb_helpers.pb.go: the helper bodies emitted for each schema
MessageTypes == {TAT, NM, NTAT, TATO, SI, TATI}
GeneratedHelpers ==
    [S \in Schemas |-> [t \in MessageTypes |-> genHelperForMsg(S, t)]]

\* ------------------------------- internal/generator: the emitted code, run
\* m.GetX(): the value, the zero value behind a nil pointer, or the pointer
\* itself for a message field
Getter(msg, fd) ==
    LET x == msg.v[fd.slot] IN
    IF fd.kind = "message" THEN x
    ELSE IF fd.synthetic
         THEN (IF Len(x) = 0 THEN ZeroValue(fd.kind) ELSE x[1])
         ELSE x

mapHasKey(mapv, k) == \E i \in 1..Len(mapv) : mapv[i].key = k
mapIndex(mapv, k) ==
    (CHOOSE i \in 1..Len(mapv) : mapv[i].key = k)

RECURSIVE insertKey(_, _, _)
insertKey(keykind, sorted, k) ==
    IF sorted = <<>> THEN <<k>>
    ELSE IF compareMapKeys(keykind, k, Head(sorted)) THEN <<k>> \o sorted
         ELSE <<Head(sorted)>> \o insertKey(keykind, Tail(sorted), k)

\* faulty variant: maps.Keys(m) without slices.Sorted
sortedKeysSkipped(keykind, mapv) == [i \in 1..Len(mapv) |-> mapv[i].key]

\* slices.Sorted(maps.Keys(m))
RECURSIVE sortedKeys(_, _)
sortedKeys(keykind, mapv) ==
    IF mapv = <<>> THEN <<>>
    ELSE insertKey(keykind,
                   sortedKeys(keykind, SubSeq(mapv, 1, Len(mapv) - 1)),
                   mapv[Len(mapv)].key)

RECURSIVE hashpb_sum(_, _, _, _)
RECURSIVE runSingularField(_, _, _, _, _)
RECURSIVE runEach(_, _, _, _, _)

\* the code emitted by genSingularField, run on the value v
runSingularField(S, fd, v, ign, top) ==
    CASE fd.kind = "bool" -> <<Ev(top, AppendVarint(EncodeBool(v)))>>
      [] fd.kind = "enum" ->
            <<Ev(top, AppendVarint64(SignExtend(Word(v, 32))))>>
      [] fd.kind = "int32" ->
            <<Ev(top, AppendVarint64(SignExtend(Word(v, 32))))>>
      [] fd.kind = "uint32" -> <<Ev(top, AppendVarint64(ZeroExtend(v)))>>
      [] fd.kind = "int64" -> <<Ev(top, AppendVarint64(Word(v, 64)))>>
      [] fd.kind = "string" -> <<Ev(top, AppendString(v))>>
      [] fd.kind = "message" ->
            IF Len(v) # 0 THEN hashpb_sum(S, v[1], ign, top) ELSE <<>>

runEach(S, fd, vals, ign, top) ==
    IF vals = <<>> THEN <<>>
    ELSE runSingularField(S, fd, Head(vals), ign, top)
         \o runEach(S, fd, Tail(vals), ign, top)

\* a list element or map value as the emitted code sees it
AsOperand(fd, v) == IF fd.kind = "message" THEN <<v>> ELSE v

runListField(S, fd, msg, ign, top) ==
    LET list == msg.v[fd.slot] IN
    IF Len(list) > 0
    THEN runEach(S, fd, [i \in 1..Len(list) |-> AsOperand(fd, list[i])],
                 ign, top)
    ELSE <<>>

\* the keys the emitted code looks up, in the order it looks them up
lookupKeys(keykind, mapv) ==
    IF keykind = "bool"
    THEN SelectSeq(<<FALSE, TRUE>>, LAMBDA k : mapHasKey(mapv, k))
    ELSE IF Len(mapv) > 0 THEN sortedKeys(keykind, mapv) ELSE <<>>

\* m.F[k] for each of the keys
valuesAt(fd, mapv, keys) ==
    [i \in 1..Len(keys) |->
        AsOperand(fd, mapv[mapIndex(mapv, keys[i])].value)]

runMapField(S, fd, msg, ign, top) ==
    runEach(S, fd,
            valuesAt(fd, msg.v[fd.slot],
                     lookupKeys(fd.keykind, msg.v[fd.slot])),
            ign, top)

\* code emitted by genField
runField(S, st, msg, ign, top) ==
    IF st.guard \in ign THEN <<>>
    ELSE CASE st.fd.card = "list" -> runListField(S, st.fd, msg, ign, top)
           [] st.fd.card = "map" -> runMapField(S, st.fd, msg, ign, top)
           [] OTHER -> runSingularField(S, st.fd, Getter(msg, st.fd), ign, top)

\* code emitted by genOneOfField
runOneOfField(S, st, msg, ign, top) ==
    LET x == msg.v[st.fd.slot] IN
    IF Len(x) = 0 THEN <<>>
    ELSE IF st.guard \in ign THEN <<>>
    ELSE LET hit == SelectSeq(st.members, LAMBDA f : f.name = x[1].member)
             f == hit[1]
         IN IF hit = <<>> THEN <<>>
            ELSE runSingularField(S, f,
                     IF f.kind = "message" THEN x[1].msg ELSE x[1].enum,
                     ign, IF top = 0 THEN f.number ELSE top)

RECURSIVE runStmts(_, _, _, _, _)
runStmts(S, stmts, msg, ign, top) ==
    IF stmts = <<>> THEN <<>>
    ELSE LET st == Head(stmts)
             t == IF top = 0 THEN st.fd.number ELSE top
         IN (IF st.op = "oneof"
             THEN runOneOfField(S, st, msg, ign, top)
             ELSE runField(S, st, msg, ign, t))
            \o runStmts(S, Tail(stmts), msg, ign, top)

\* the helper <type>_hashpb_sum(m, hasher, ignore)
hashpb_sum(S, msg, ign, top) ==
    runStmts(S, GeneratedHelpers[S][msg.type], msg, ign, top)

\* faulty variant: no nil check on the receiver, whose getters return the
\* defaults of a NestedMessage
HashPBNilAsEmpty(S, m, ign) ==
    hashpb_sum(S, IF IsNil(m) THEN [type |-> NM, v |-> [Bb |-> 0]] ELSE m,
               ign, 0)

\* the method (m *T) HashPB(hasher, ignore)
HashPB(S, m, ign) == IF IsNil(m) THEN <<>> ELSE hashpb_sum(S, m, ign, 0)

\* ------------------------------------------------------ hashpb.go: entry
Digest(alg, absorbed) == [alg |-> alg, of |-> absorbed]

\* the hasher a call uses: the one given by WithHasher, or xxhash.New()
AlgOf(opt) == IF opt = "" THEN "xxhash" ELSE opt
IsHash64(alg) == alg = "xxhash"

\* faulty variant: the hasher is reset before the message is written
hashedAfterReset(r, h) ==
    [nil |-> r.err # <<>>, err |-> r.err, ev |-> r.ev,
     absorbed |-> Flatten(r.ev)]

\* what doHash returns after ph.hash(msg) returned r: the hasher has
\* absorbed what was written, ph is nil if r is an error
hashed(r, h) ==
    [nil |-> r.err # <<>>, err |-> r.err, ev |-> r.ev,
     absorbed |-> h \o Flatten(r.ev)]

\* faulty variant: no nil check, a nil message is traversed as one with no field set
doHashNilAsEmpty(S, pb, ign, h) ==
    hashed(IF IsNil(pb) THEN Ok(<<>>) ELSE hash(S, pb, ign, 0), h)

\* doHash: h is what the hasher in use has absorbed before the call
doHash(S, pb, ign, h) ==
    IF IsNil(pb) THEN [nil |-> TRUE, err |-> errInvalidMsg, ev |-> <<>>,
                       absorbed |-> h]
    ELSE hashed(hash(S, pb, ign, 0), h)

\* Sum after doHash returned ph
sumOf(b, opt, ph) ==
    IF ph.err # <<>>
    THEN [fn |-> "Sum", val |-> <<>>, err |-> ph.err, ph |-> ph]
    ELSE [fn |-> "Sum", val |-> b \o <<Digest(AlgOf(opt), ph.absorbed)>>,
          err |-> <<>>, ph |-> ph]

Sum(b, S, pb, opt, ign, h) == sumOf(b, opt, doHash(S, pb, ign, h))

\* faulty variant: no hash.Hash64 assertion, the digest is returned cut to
\* 64 bits whatever the hasher
sum64OfTruncating(opt, ph) ==
    IF ph.err # <<>>
    THEN [fn |-> "Sum64", val |-> 0, err |-> ph.err, ph |-> ph]
    ELSE [fn |-> "Sum64", val |-> Digest(AlgOf(opt), ph.absorbed),
          err |-> <<>>, ph |-> ph]

\* Sum64 after doHash returned ph
sum64Of(opt, ph) ==
    IF ph.err # <<>>
    THEN [fn |-> "Sum64", val |-> 0, err |-> ph.err, ph |-> ph]
    ELSE IF ~IsHash64(AlgOf(opt))
         THEN [fn |-> "Sum64", val |-> 0, err |-> errUnsupported, ph |-> ph]
         ELSE [fn |-> "Sum64", val |-> Digest(AlgOf(opt), ph.absorbed),
               err |-> <<>>, ph |-> ph]

Sum64(S, pb, opt, ign, h) == sum64Of(opt, doHash(S, pb, ign, h))

\* ------------------------------------------------------------------ inputs
NestedMessages == {[type |-> NM, v |-> [Bb |-> b]] : b \in {0, 2}}

TATSlots == <<"SingleInt32", "SingleString", "StandaloneEnum", "NestedType",
              "RepeatedInt32", "MapStringString", "MapInt32String",
              "MapBoolString">>

RECURSIVE SeqsUpTo(_, _)
SeqsUpTo(S, n) ==
    IF n = 0 THEN {<<>>}
    ELSE LET shorter == SeqsUpTo(S, n - 1) IN
         shorter \cup {Append(q, x) : q \in {r \in shorter : Len(r) = n - 1},
                                      x \in S}

\* the maps {k1: "a"}, {k2: "a"} and {k1: "a", k2: "b"}, the last in both
\* iteration orders
MapsOf(k1, k2) ==
    {<<Entry(k1, StrA)>>, <<Entry(k2, StrA)>>,
     <<Entry(k1, StrA), Entry(k2, StrB)>>,
     <<Entry(k2, StrB), Entry(k1, StrA)>>}

\* the zero value of a slot, and its other values
Default(slot) ==
    IF slot \in {"SingleInt32", "StandaloneEnum", "Bb"} THEN 0 ELSE <<>>

Options(slot) ==
    CASE slot = "SingleInt32" -> Int32Values
      [] slot = "SingleString" -> {StrA}
      [] slot = "StandaloneEnum" -> EnumValues \ {0}
      [] slot = "NestedType" ->
            {<<Wrapper("single_nested_message", 0, <<nm>>)>> :
                nm \in NestedMessages}
            \cup {<<Wrapper("single_nested_enum", e, <<>>)>> : e \in EnumValues}
      [] slot = "RepeatedInt32" -> SeqsUpTo(ListElems, MaxListLen) \ {<<>>}
      [] slot = "MapStringString" -> MapsOf(<<98>>, <<97, 98>>)
      [] slot = "MapInt32String" -> MapsOf(2, -1)
      [] slot = "MapBoolString" -> MapsOf(TRUE, FALSE)

\* the values of slots i.. of TestAllTypes with at most k slots populated
RECURSIVE Build(_, _)
Build(i, k) ==
    IF i > Len(TATSlots) THEN {<<>>}
    ELSE LET slot == TATSlots[i] IN
         {(slot :> Default(slot)) @@ rest : rest \in Build(i + 1, k)}
         \cup (IF k = 0 THEN {}
               ELSE {(slot :> o) @@ rest :
                        o \in Options(slot), rest \in Build(i + 1, k - 1)})

TATMessages(k) == {[type |-> TAT, v |-> f] : f \in Build(1, k)}

TATOMessages ==
    {[type |-> TATO, v |-> [SingleInt32 |-> i, SingleString |-> s]] :
        i \in {<<>>, <<0>>, <<1>>}, s \in {<<>>, << <<>> >>, <<StrA>>}}

Payloads ==
    TATMessages(0)
    \cup {[m EXCEPT !.v["SingleInt32"] = 1] : m \in TATMessages(0)}

RECURSIVE NTATMessages(_)
NTATMessages(d) ==
    IF d = 0 THEN {}
    ELSE {[type |-> NTAT, v |-> [Child |-> c, Payload |-> p]] :
            c \in {<<>>} \cup {<<n>> : n \in NTATMessages(d - 1)},
            p \in {<<>>} \cup {<<t>> : t \in Payloads}}

\* "ab" and 5 in a StringThenInt32 message
SIMessages ==
    {[type |-> SI, v |-> [Text |-> t, Count |-> c, Extra |-> e]] :
        t \in {<<>>, <<97, 98>>}, c \in {0, 5}, e \in {0, 5}}

\* 32-bit numbers at the ends of the range and around the varint group
\* boundary
MinInt32 == -2147483647 - 1
MaxInt32 == 2147483647
Int32Samples == {0, 1, 128, -1, MaxInt32, MinInt32}

\* the integer fields holding numbers from Int32Samples; a uint32 holds the
\* 32-bit pattern of the sample
IntegerMessages ==
    {[type |-> TATI,
      v |-> [SingleInt32 |-> a, SingleInt64 |-> b,
             SingleUint32 |-> Word(c, 32), StandaloneEnum |-> e]] :
        a \in Int32Samples, b \in Int32Samples, c \in Int32Samples,
        e \in Int32Samples}

\* messages with and without a populated group field
WithGroupMessages ==
    {[type |-> WG, v |-> [Before |-> b, Body |-> g, After |-> a]] :
        b \in {0, 5}, a \in {0, 5},
        g \in {<<>>} \cup {<<n>> : n \in NestedMessages}}

GroupMessages ==
    WithGroupMessages
    \cup {[type |-> GH, v |-> [Inner |-> i, Tail |-> t]] :
             i \in {<<>>} \cup {<<w>> : w \in WithGroupMessages},
             t \in {0, 5}}

Messages(k) ==
    TATMessages(k) \cup NestedMessages \cup TATOMessages
    \cup NTATMessages(MaxDepth) \cup SIMessages

\* the values a slot of a message of the given type can take
SlotValues(type, slot) ==
    CASE type = TAT -> Options(slot) \cup {Default(slot)}
      [] type = NM -> {0, 2}
      [] type = TATO /\ slot = "SingleInt32" -> {<<>>, <<0>>, <<1>>}
      [] type = TATO /\ slot = "SingleString" -> {<<>>, << <<>> >>, <<StrA>>}
      [] type = SI /\ slot = "Text" -> {<<>>, <<97, 98>>}
      [] type = SI /\ slot \in {"Count", "Extra"} -> {0, 5}
      [] type = NTAT /\ slot = "Child" ->
            {<<>>} \cup {<<n>> : n \in NTATMessages(MaxDepth - 1)}
      [] type = NTAT /\ slot = "Payload" ->
            {<<>>} \cup {<<t>> : t \in Payloads}

\* m and the messages that differ from m in one slot
Vary(m) ==
    {m} \cup UNION {{[m EXCEPT !.v[s] = o] : o \in SlotValues(m.type, s)} :
                       s \in DOMAIN m.v}

IgnoreSets(type) ==
    CASE type = TAT ->
            {{},
             {"cerbos.hashpb.test.TestAllTypes.standalone_enum"},
             {NestedTypeOneof},
             {"cerbos.hashpb.test.TestAllTypes.single_nested_message",
              "cerbos.hashpb.test.TestAllTypes.single_nested_enum"},
             {"cerbos.hashpb.test.TestAllTypes.NestedMessage.bb"}}
      [] type = NM ->
            {{}, {"cerbos.hashpb.test.TestAllTypes.NestedMessage.bb"}}
      [] type = TATO ->
            {{}, {"cerbos.hashpb.test.TestAllTypesOptional.single_int32"}}
      [] type = SI -> {{}, {"cerbos.hashpb.test.StringThenInt32.extra"}}
      [] type = TATI ->
            {{}, {"cerbos.hashpb.test.TestAllTypes.single_int64"}}
      [] type = WG ->
            {{},
             {"cerbos.hashpb.test.WithGroup.body"},
             {"cerbos.hashpb.test.WithGroup.before"}}
      [] type = GH ->
            {{},
             {"cerbos.hashpb.test.WithGroup.body"},
             {"cerbos.hashpb.test.GroupHolder.inner"}}
      [] type = NTAT ->
            {{},
             {"cerbos.hashpb.test.NestedTestAllTypes.payload"},
             {"cerbos.hashpb.test.NestedTestAllTypes.child"},
             {"cerbos.hashpb.test.TestAllTypes.single_int32"}}
      [] OTHER -> {{}, {NestedTypeOneof}}

HasherOptions == {"", "sha256"}
Runs == {"sum1", "gen1", "sum2", "gen2"}

\* ----------------------------------------------------------- state machine
TypeOK ==
    /\ schema \in Schemas
    /\ pc \in {"start", "a1", "a2", "b1", "done"}
    /\ withHasher \in HasherOptions

InitCommon ==
    /\ pc = "start"
    /\ hasher = [r \in Runs |-> <<>>]
    /\ ret = [r \in Runs |-> <<>>]
    /\ log = [r \in Runs |-> <<>>]
    /\ calls = <<>>
    /\ walk = <<>>
    /\ gen = <<>>

\* one message, hashed by both strategies
Init ==
    /\ InitCommon
    /\ schema \in Schemas
    /\ withHasher = ""
    /\ m1 \in Messages(MaxPopulated) \cup {NilMsg}
    /\ m2 = m1
    /\ ignore \in IgnoreSets(m1.type)

\* a message and a separately constructed counterpart
InitPair ==
    /\ InitCommon
    /\ schema = RepoEnumNumber
    /\ withHasher = ""
    /\ m1 \in Messages(MaxShared)
    /\ m2 \in Vary(m1)
    /\ ignore \in IgnoreSets(m1.type)

\* a message or nil, hashed with or without a hasher of the caller's
InitEntry ==
    /\ InitCommon
    /\ schema = RepoEnumNumber
    /\ withHasher \in HasherOptions
    /\ m1 \in Messages(MaxShared) \cup {NilMsg}
    /\ m2 = m1
    /\ ignore \in IgnoreSets(m1.type)

\* the call of Sum or Sum64 returns r: the caller holds the result, and its
\* own hasher, if it gave one, has absorbed what was written
Returned(run, r, next) ==
    /\ ret' = [ret EXCEPT ![run] = <<[fn |-> r.fn, val |-> r.val,
                                      err |-> r.err]>>]
    /\ log' = [log EXCEPT ![run] = r.ph.ev]
    /\ hasher' = [hasher EXCEPT
                    ![run] = IF withHasher = "" THEN @ ELSE r.ph.absorbed]
    /\ pc' = next
    /\ UNCHANGED <<schema, ignore, withHasher, m1, m2, calls, walk, gen>>

\* hashpb.Sum(nil, m, WithHasher(..), WithIgnoreFields(..))
CallSum(run, m, next) ==
    Returned(run, Sum(<<>>, schema, m, withHasher, ignore, hasher[run]), next)

\* hashpb.Sum64(m, WithHasher(..), WithIgnoreFields(..))
CallSum64(run, m, next) ==
    Returned(run, Sum64(schema, m, withHasher, ignore, hasher[run]), next)

\* HashPB has written evs to the hasher it was given
Written(run, evs, next) ==
    /\ ret' = [ret EXCEPT ![run] = <<[fn |-> "HashPB", val |-> <<>>,
                                      err |-> <<>>]>>]
    /\ log' = [log EXCEPT ![run] = evs]
    /\ hasher' = [hasher EXCEPT ![run] = @ \o Flatten(evs)]
    /\ pc' = next
    /\ UNCHANGED <<schema, ignore, withHasher, m1, m2, calls, walk, gen>>

\* the kinds genSingularField has a case for
HandledKinds ==
    {"bool", "enum", "int32", "uint32", "int64", "string", "message"}

\* genSingularField reaches its default case while generating the helpers of
\* the file that declares type: panic("unhandled field kind ...")
RECURSIVE unhandledKinds(_, _)
unhandledKinds(S, type) ==
    UNION {IF fd.kind \in HandledKinds
           THEN (IF fd.kind = "message" /\ fd.msg # type
                 THEN unhandledKinds(S, fd.msg) ELSE {})
           ELSE {fd.kind} :
             fd \in {Fields(S, type)[i] : i \in 1..Len(Fields(S, type))}}

\* the plugin has panicked: no code was generated, there is no HashPB method
\* to call and nothing is written
Panicked(run, kinds, next) ==
    /\ ret' = [ret EXCEPT ![run] = <<[fn |-> "protoc-gen-go-hashpb",
                                      val |-> <<>>,
                                      err |-> <<"unhandled field kind",
                                                kinds>>]>>]
    /\ pc' = next
    /\ UNCHANGED <<schema, ignore, withHasher, m1, m2, calls, walk, gen, log,
                   hasher>>

\* m.HashPB(hasher, ignore), if the plugin generated it
CallHashPB(run, m, next) ==
    IF ~IsNil(m) /\ unhandledKinds(schema, m.type) # {}
    THEN Panicked(run, unhandledKinds(schema, m.type), next)
    ELSE Written(run, HashPB(schema, m, ignore), next)

SumFirst == pc = "start" /\ CallSum("sum1", m1, "a1")
HashPBFirst == pc = "a1" /\ CallHashPB("gen1", m1, "a2")
Sum64Second == pc = "a2" /\ CallSum64("sum2", m2, "b1")
HashPBSecond == pc = "b1" /\ CallHashPB("gen2", m2, "done")

Next == SumFirst \/ HashPBFirst \/ Sum64Second \/ HashPBSecond

Spec == Init /\ [][Next]_vars
SpecPair == InitPair /\ [][Next]_vars
SpecEntry == InitEntry /\ [][Next]_vars

\* a message of a type with a group field
InitGroup ==
    /\ InitCommon
    /\ schema = RepoEnumNumber
    /\ withHasher \in HasherOptions
    /\ m1 \in GroupMessages
    /\ m2 = m1
    /\ ignore \in IgnoreSets(m1.type)

SpecGroup == InitGroup /\ [][Next]_vars

\* a message of integer fields
InitIntegers ==
    /\ InitCommon
    /\ schema = RepoEnumNumber
    /\ withHasher = ""
    /\ m1 \in IntegerMessages
    /\ m2 = m1
    /\ ignore \in IgnoreSets(m1.type)

SpecIntegers == InitIntegers /\ [][Next]_vars

\* ------------------------------------------- two calls of Sum, interleaved
\* Each call of doHash allocates its own pbHasher: the options struct with
\* the ignore set, and the hasher. calls[c] is the frame of call c: its
\* arguments (pb, names), where it stands (stage), its pbHasher (ph), how
\* many chunks it has written (n), what it returned (out), and whether one
\* of its writes fell between two writes of the other call (mixed).
Callers == {"A", "B"}

Frame(pb, names) ==
    [pb |-> pb, names |-> names, stage |-> "call",
     ph |-> [ignoreFields |-> {}, hasher |-> "", absorbed |-> <<>>],
     n |-> 0, out |-> <<>>, mixed |-> FALSE]

\* faulty variant: the options are one package-level value, every call reads
\* the names any call has put there
ignoreFieldsShared(cs, c) == UNION {cs[d].ph.ignoreFields : d \in DOMAIN cs}

\* ph.ignoreFields, as the traversal of call c reads it
ignoreFieldsOf(cs, c) == cs[c].ph.ignoreFields

\* what remains for call c to write, read from its own pbHasher
traversal(c) == hash(schema, calls[c].pb, ignoreFieldsOf(calls, c), 0)

MidTraversal(f) == f.stage = "hash" /\ f.n > 0

\* doHash: the nil checks, then ph := &pbHasher{}
Enter(c) ==
    /\ calls[c].stage = "call"
    /\ calls' = [calls EXCEPT ![c].stage = "options"]

\* the option returned by WithIgnoreFields, applied to &ph.options
ApplyOption(c) ==
    /\ calls[c].stage = "options"
    /\ calls' = [calls EXCEPT
                    ![c].ph.ignoreFields = @ \cup calls[c].names,
                    ![c].stage = "hasher"]

\* ph.hasher = xxhash.New()
NewHasher(c) ==
    /\ calls[c].stage = "hasher"
    /\ calls' = [calls EXCEPT ![c].ph.hasher = "xxhash",
                              ![c].stage = "hash"]

\* the traversal has written chunk ev to ph.hasher
wrote(c, ev) ==
    calls' = [calls EXCEPT
                ![c].ph.absorbed = @ \o ev.bytes,
                ![c].n = @ + 1,
                ![c].mixed = @ \/ \E d \in Callers \ {c} :
                                     MidTraversal(calls[d])]

\* ph.hash: the next write of the traversal
Write(c) ==
    /\ calls[c].stage = "hash"
    /\ calls[c].n < Len(traversal(c).ev)
    /\ wrote(c, traversal(c).ev[calls[c].n + 1])

\* ph.hash returned with err; Sum returns ph.hasher.Sum(nil) or the error
returned(c, err) ==
    calls' = [calls EXCEPT
                ![c].stage = "returned",
                ![c].out = IF err # <<>> THEN [val |-> <<>>, err |-> err]
                           ELSE [val |-> <<Digest(calls[c].ph.hasher,
                                                  calls[c].ph.absorbed)>>,
                                 err |-> <<>>]]

Return(c) ==
    /\ calls[c].stage = "hash"
    /\ calls[c].n >= Len(traversal(c).ev)
    /\ returned(c, traversal(c).err)

Unshared ==
    UNCHANGED <<schema, ignore, withHasher, m1, m2, pc, hasher, ret, log,
                walk, gen>>

EnterCall == \E c \in Callers : Enter(c) /\ Unshared
ApplyOptionCall == \E c \in Callers : ApplyOption(c) /\ Unshared
NewHasherCall == \E c \in Callers : NewHasher(c) /\ Unshared
WriteCall == \E c \in Callers : Write(c) /\ Unshared
ReturnCall == \E c \in Callers : Return(c) /\ Unshared

\* two goroutines call Sum on the same message with different ignore sets
InitCalls ==
    /\ pc = "calls"
    /\ hasher = [r \in Runs |-> <<>>]
    /\ ret = [r \in Runs |-> <<>>]
    /\ log = [r \in Runs |-> <<>>]
    /\ schema = RepoEnumNumber
    /\ withHasher = ""
    /\ m1 \in Messages(MaxShared)
    /\ m2 = m1
    /\ ignore \in IgnoreSets(m1.type)
    /\ walk = <<>>
    /\ gen = <<>>
    /\ \E other \in IgnoreSets(m1.type) \ {ignore} :
          calls = [c \in Callers |->
                      IF c = "A" THEN Frame(m1, ignore) ELSE Frame(m2, other)]

NextCalls ==
    EnterCall \/ ApplyOptionCall \/ NewHasherCall \/ WriteCall \/ ReturnCall

SpecCalls == InitCalls /\ [][NextCalls]_vars

\* ------------------------------- hash, step by step, on messages by pointer
\* NestedTestAllTypes is self-referential: child is a *NestedTestAllTypes.
\* The heap maps each message to its child pointer (0 is nil) and its
\* payload; the traversal of Sum(root) is the stack of the activations of
\* hash, each at the field it will write next.
Nodes == 1..MaxNodes
MaxStack == MaxNodes + StackRoom

Heaps ==
    [Nodes -> [child : 0..MaxNodes,
               payload : {<<>>} \cup {<<t>> : t \in Payloads}]]

ChildName == "cerbos.hashpb.test.NestedTestAllTypes.child"
PayloadName == "cerbos.hashpb.test.NestedTestAllTypes.payload"

\* child is collected into setFields: populated and not ignored
childSet(n) == walk.heap[n].child # 0 /\ ChildName \notin ignore
payloadSet(n) == walk.heap[n].payload # <<>> /\ PayloadName \notin ignore

Top == walk.stack[Len(walk.stack)]

\* faulty variant: the loop over setFields does not advance past child
resumeAtChild(frame) == frame

\* the activation after writeValue of child returned: on to payload
resume(frame) == [frame EXCEPT !.at = "payload"]

pushed(n) ==
    walk' = [walk EXCEPT
               !.stack = Append(@, [node |-> n, at |-> "child"]),
               !.deepest = IF Len(walk.stack) + 1 > @
                           THEN Len(walk.stack) + 1 ELSE @]

\* doHash: ph.hash(msg) on the root
StartHash ==
    /\ walk.status = "call"
    /\ walk' = [walk EXCEPT !.stack = <<[node |-> 1, at |-> "child"]>>,
                            !.deepest = 1,
                            !.status = "running"]

\* writeSingularValue, MessageKind: ph.hash(v.Message()) on the child
Descend ==
    /\ walk.status = "running" /\ Top.at = "child"
    /\ childSet(Top.node)
    /\ Len(walk.stack) < MaxStack
    /\ pushed(walk.heap[Top.node].child)

\* the goroutine's stack is exhausted: fatal error, the process dies
StackOverflow ==
    /\ walk.status = "running" /\ Top.at = "child"
    /\ childSet(Top.node)
    /\ Len(walk.stack) >= MaxStack
    /\ walk' = [walk EXCEPT !.status = "crashed"]

\* child is not in setFields
SkipChild ==
    /\ walk.status = "running" /\ Top.at = "child"
    /\ ~childSet(Top.node)
    /\ walk' = [walk EXCEPT !.stack[Len(walk.stack)].at = "payload"]

\* what the traversal of the payloads, each a TestAllTypes without message
\* fields, writes: fixed for the call, as heap and ignore set are
payloadWrites(h) ==
    [n \in Nodes |->
        IF h[n].payload = <<>> THEN <<>>
        ELSE Flatten(hash(schema, h[n].payload[1], ignore, 2).ev)]

\* the writes of payload, if it is in setFields
WritePayload ==
    /\ walk.status = "running" /\ Top.at = "payload"
    /\ walk' = [walk EXCEPT
                  !.stack[Len(walk.stack)].at = "return",
                  !.written = IF payloadSet(Top.node)
                              THEN @ \o walk.payloads[Top.node] ELSE @]

\* return nil from a nested hash: the caller goes on with its next field
ReturnNested ==
    /\ walk.status = "running" /\ Top.at = "return"
    /\ Len(walk.stack) > 1
    /\ walk' = [walk EXCEPT
                  !.stack = Append(SubSeq(@, 1, Len(@) - 2),
                                   resume(@[Len(@) - 1]))]

\* return nil from hash of the root: Sum returns the digest
ReturnDigest ==
    /\ walk.status = "running" /\ Top.at = "return"
    /\ Len(walk.stack) = 1
    /\ walk' = [walk EXCEPT
                  !.stack = <<>>,
                  !.status = "done",
                  !.digest = <<Digest("xxhash", walk.written)>>]

Walking ==
    UNCHANGED <<schema, ignore, withHasher, m1, m2, pc, hasher, ret, log,
                calls, gen>>

NextWalk ==
    \/ StartHash /\ Walking
    \/ Descend /\ Walking
    \/ StackOverflow /\ Walking
    \/ SkipChild /\ Walking
    \/ WritePayload /\ Walking
    \/ ReturnNested /\ Walking
    \/ ReturnDigest /\ Walking

\* Sum(root) on any heap of MaxNodes messages, cyclic ones included
InitWalk ==
    /\ pc = "walk"
    /\ hasher = [r \in Runs |-> <<>>]
    /\ ret = [r \in Runs |-> <<>>]
    /\ log = [r \in Runs |-> <<>>]
    /\ calls = <<>>
    /\ gen = <<>>
    /\ schema = RepoEnumNumber
    /\ withHasher = ""
    /\ m1 = NilMsg /\ m2 = NilMsg
    /\ ignore \in {{}, {ChildName}, {PayloadName}}
    /\ \E h \in Heaps :
          walk = [heap |-> h, payloads |-> payloadWrites(h),
                  stack |-> <<>>, status |-> "call",
                  written |-> <<>>, digest |-> <<>>, deepest |-> 0]

SpecWalk == InitWalk /\ [][NextWalk]_vars

\* the goroutine that called Sum keeps running until it returns or dies
SpecWalkFair == SpecWalk /\ WF_vars(NextWalk)

\* --------------------------------- internal/generator: collecting messages
\* The files of one Go package declare or import the message types
\* 1..MaxTypes. A full name is the sequence of its parts, "." between
\* package and message name, "_" inside an identifier. Type i links to type
\* j by a message field ("field"), by a map field whose value is of type j
\* ("map", through a synthetic map-entry message), or not at all.
TypeIds == 1..MaxTypes
FullNames ==
    {<<"x", sep, "y", ".", n>> : sep \in {".", "_"}, n \in {"Z", "W"}}

TypeGraphs ==
    {g \in [TypeIds -> [name : FullNames,
                        links : [TypeIds -> {"none", "field", "map"}]]] :
        \A i, j \in TypeIds : i # j => g[i].name # g[j].name}

\* nonIdentifierChars.ReplaceAllLiteralString(fullName, "_") + funcSuffix
sumFuncName(name) ==
    [i \in 1..Len(name) |-> IF name[i] = "." THEN "_" ELSE name[i]]
    \o <<"_hashpb_sum">>

Message(t) == [mapEntry |-> FALSE, type |-> t]
MapEntry(t) == [mapEntry |-> TRUE, type |-> t]

\* f.Message of the fields of msg that have one, in field order: the value
\* of a map entry, the referenced types of a message
RECURSIVE linked(_, _)
linked(links, j) ==
    IF j > MaxTypes THEN <<>>
    ELSE (CASE links[j] = "field" -> <<Message(j)>>
            [] links[j] = "map" -> <<MapEntry(j)>>
            [] OTHER -> <<>>)
         \o linked(links, j + 1)

fieldMessages(msg) ==
    IF msg.mapEntry THEN <<Message(msg.type)>>
    ELSE linked(gen.types[msg.type].links, 1)

collected(fn) == \E e \in gen.col : e.fn = fn

Call(msg) == [msg |-> msg, at |-> 0]
Frame0 == gen.stack[Len(gen.stack)]
Collecting(others) == gen' = others /\ UNCHANGED
    <<schema, ignore, withHasher, m1, m2, pc, hasher, ret, log, calls, walk>>

\* generateHelpers: collectMessages(msgsToGen, msg) for the next top-level
\* message of the files
CollectTopLevel ==
    /\ gen.status = "collecting" /\ gen.stack = <<>>
    /\ gen.root <= Len(gen.roots)
    /\ Collecting([gen EXCEPT !.stack = <<Call(Message(gen.roots[gen.root]))>>,
                             !.root = @ + 1])

\* collectMessages on a map entry: nothing is recorded, its fields are
\* visited
EnterMapEntry ==
    /\ gen.status = "collecting" /\ gen.stack # <<>>
    /\ Frame0.at = 0 /\ Frame0.msg.mapEntry
    /\ Collecting([gen EXCEPT !.stack[Len(gen.stack)].at = 1])

\* collectMessages on a message whose function name is in col: return
AlreadyCollected ==
    /\ gen.status = "collecting" /\ gen.stack # <<>>
    /\ Frame0.at = 0 /\ ~Frame0.msg.mapEntry
    /\ collected(sumFuncName(gen.types[Frame0.msg.type].name))
    /\ Collecting([gen EXCEPT !.stack = SubSeq(@, 1, Len(@) - 1)])

\* col[fnName] = msg
Collect ==
    /\ gen.status = "collecting" /\ gen.stack # <<>>
    /\ Frame0.at = 0 /\ ~Frame0.msg.mapEntry
    /\ ~collected(sumFuncName(gen.types[Frame0.msg.type].name))
    /\ Collecting([gen EXCEPT
          !.col = @ \cup {[fn |-> sumFuncName(gen.types[Frame0.msg.type].name),
                           msg |-> Frame0.msg]},
          !.stack[Len(gen.stack)].at = 1])

\* the loop over msg.Fields: collectMessages(col, f.Message)
VisitField ==
    /\ gen.status = "collecting" /\ gen.stack # <<>>
    /\ Frame0.at > 0 /\ Frame0.at <= Len(fieldMessages(Frame0.msg))
    /\ Collecting([gen EXCEPT
          !.stack = Append([@ EXCEPT ![Len(@)].at = Frame0.at + 1],
                           Call(fieldMessages(Frame0.msg)[Frame0.at]))])

\* the loop is over: return
ReturnCollect ==
    /\ gen.status = "collecting" /\ gen.stack # <<>>
    /\ Frame0.at > Len(fieldMessages(Frame0.msg))
    /\ Collecting([gen EXCEPT !.stack = SubSeq(@, 1, Len(@) - 1)])

\* genHelperForMsg for each name in msgsToGen
EmitHelpers ==
    /\ gen.status = "collecting" /\ gen.stack = <<>>
    /\ gen.root > Len(gen.roots)
    /\ Collecting([gen EXCEPT !.status = "done",
                             !.helpers = {e.msg : e \in gen.col}])

NextGenerate ==
    \/ CollectTopLevel \/ EnterMapEntry \/ AlreadyCollected \/ Collect
    \/ VisitField \/ ReturnCollect \/ EmitHelpers

\* the plugin is given any graph of message types and its top-level ones
InitGenerate ==
    /\ pc = "generate"
    /\ hasher = [r \in Runs |-> <<>>]
    /\ ret = [r \in Runs |-> <<>>]
    /\ log = [r \in Runs |-> <<>>]
    /\ calls = <<>> /\ walk = <<>>
    /\ schema = RepoEnumNumber
    /\ withHasher = ""
    /\ m1 = NilMsg /\ m2 = NilMsg
    /\ ignore = {}
    /\ \E g \in TypeGraphs, top \in {<<1>>, <<1, MaxTypes>>} :
          gen = [types |-> g, roots |-> top, root |-> 1, col |-> {},
                 stack |-> <<>>, status |-> "collecting", helpers |-> {}]

SpecGenerate == InitGenerate /\ [][NextGenerate]_vars

\* the plugin keeps running until it has emitted the helpers
SpecGenerateFair == SpecGenerate /\ WF_vars(NextGenerate)

\* ------------------- internal/generator: helpers and methods of a package
\* Generate calls generateHelpers and then generateMethods on the files of
\* a package. Each message type is declared at the top level of one of the
\* files (parent 0), nested inside another type (parent > 0), or in another
\* package (parent -1); scalars tells whether it has fields that are not
\* messages. Type 1 is a top-level message of the package.
Letter(i) == <<"A", "B", "C", "D", "E", "F", "G", "H">>[i]

Parents ==
    {p \in [TypeIds -> -1..MaxTypes] :
        p[1] = 0 /\ \A i \in TypeIds : p[i] < i}

\* the full name: package, then the enclosing messages, then the message
RECURSIVE fullNameOf(_, _)
fullNameOf(p, i) ==
    IF p[i] > 0 THEN fullNameOf(p, p[i]) \o <<".", Letter(i)>>
    ELSE <<(IF p[i] = 0 THEN "x" ELSE "z"), ".", Letter(i)>>

\* msg.GoIdent.GoName: the names of the enclosing messages and of the
\* message, joined by "_"
goName(name) ==
    [i \in 1..(Len(name) - 2) |->
        IF name[i + 2] = "." THEN "_" ELSE name[i + 2]]

Declarations ==
    {[i \in TypeIds |-> [name |-> fullNameOf(p, i), links |-> l[i],
                         parent |-> p[i], scalars |-> s[i]]] :
        p \in Parents,
        l \in [TypeIds -> [TypeIds -> {"none", "field", "map"}]],
        s \in [TypeIds -> BOOLEAN]}

\* f.Messages, file by file: the top-level messages of the package
topLevel(types) ==
    SelectSeq([i \in TypeIds |-> i], LAMBDA i : types[i].parent = 0)

\* msg.Messages: the messages declared inside msg (the synthetic map
\* entries among them return at once and are left out)
nestedIn(types, t) ==
    SelectSeq([i \in TypeIds |-> i], LAMBDA i : types[i].parent = t)

\* len(msg.Fields) == 0
noFields(types, t) ==
    ~types[t].scalars /\ \A j \in TypeIds : types[t].links[j] = "none"

\* generateMethods: the loop over f.Messages begins
StartMethods ==
    /\ gen.status = "done"
    /\ Collecting([gen EXCEPT !.status = "methods",
                             !.pending = topLevel(gen.types)])

\* genMethodForMsg returns early: the message has no fields, or a method of
\* its Go name was generated
SkipMethod ==
    /\ gen.status = "methods" /\ gen.pending # <<>>
    /\ \/ noFields(gen.types, Head(gen.pending))
       \/ goName(gen.types[Head(gen.pending)].name) \in gen.genFuncs
    /\ Collecting([gen EXCEPT !.pending = Tail(@)])

\* genMethodForMsg emits HashPB, which calls sumFuncName(msg.Desc), and
\* goes on to the messages nested in msg
GenMethod ==
    /\ gen.status = "methods" /\ gen.pending # <<>>
    /\ ~noFields(gen.types, Head(gen.pending))
    /\ goName(gen.types[Head(gen.pending)].name) \notin gen.genFuncs
    /\ Collecting([gen EXCEPT
          !.genFuncs = @ \cup {goName(gen.types[Head(gen.pending)].name)},
          !.methods = @ \cup {[of |-> Head(gen.pending),
                               calls |-> sumFuncName(
                                  gen.types[Head(gen.pending)].name)]},
          !.pending = nestedIn(gen.types, Head(gen.pending)) \o Tail(@)])

\* Generate returns nil
ReturnGenerate ==
    /\ gen.status = "methods" /\ gen.pending = <<>>
    /\ Collecting([gen EXCEPT !.status = "emitted"])

NextPackage ==
    \/ CollectTopLevel \/ EnterMapEntry \/ AlreadyCollected \/ Collect
    \/ VisitField \/ ReturnCollect \/ EmitHelpers
    \/ StartMethods \/ SkipMethod \/ GenMethod \/ ReturnGenerate

InitPackage ==
    /\ pc = "generate"
    /\ hasher = [r \in Runs |-> <<>>]
    /\ ret = [r \in Runs |-> <<>>]
    /\ log = [r \in Runs |-> <<>>]
    /\ calls = <<>> /\ walk = <<>>
    /\ schema = RepoEnumNumber
    /\ withHasher = ""
    /\ m1 = NilMsg /\ m2 = NilMsg
    /\ ignore = {}
    /\ \E d \in Declarations :
          gen = [types |-> d, roots |-> topLevel(d), root |-> 1, col |-> {},
                 stack |-> <<>>, status |-> "collecting", helpers |-> {},
                 pending |-> <<>>, genFuncs |-> {}, methods |-> {}]

SpecPackage == InitPackage /\ [][NextPackage]_vars

\* ------------------------------------ calls of Sum and Sum64 in sequence
\* A caller makes up to MaxCalls calls with the same options, on m1 or m2.
\* With WithHasher every call gets the caller's hasher (hasher["sum1"] is
\* what it has absorbed); without, doHash makes a new one. ret["sum1"]
\* lists what the calls returned, in call order.
SeqMessages ==
    Payloads \cup NestedMessages \cup TATOMessages \cup SIMessages

\* ph.hasher before ph.hash: o.hasher if WithHasher set it, else
\* xxhash.New(), which has absorbed nothing
hasherInUse(opt, h) == IF opt = "" THEN <<>> ELSE h

\* the call on pb returned r
Called(r, pb) ==
    /\ ret' = [ret EXCEPT !["sum1"] =
                  Append(@, [fn |-> r.fn, val |-> r.val, err |-> r.err,
                             pb |-> pb])]
    /\ log' = [log EXCEPT !["sum1"] = @ \o r.ph.ev]
    /\ hasher' = [hasher EXCEPT
                    !["sum1"] = IF withHasher = "" THEN @
                                ELSE r.ph.absorbed]
    /\ UNCHANGED <<schema, ignore, withHasher, m1, m2, pc, calls, walk, gen>>

SumNext ==
    /\ pc = "seq" /\ Len(ret["sum1"]) < MaxCalls
    /\ \E pb \in {m1, m2} :
          Called(Sum(<<>>, schema, pb, withHasher, ignore,
                     hasherInUse(withHasher, hasher["sum1"])), pb)

Sum64Next ==
    /\ pc = "seq" /\ Len(ret["sum1"]) < MaxCalls
    /\ \E pb \in {m1, m2} :
          Called(Sum64(schema, pb, withHasher, ignore,
                       hasherInUse(withHasher, hasher["sum1"])), pb)

NextSeq == SumNext \/ Sum64Next

\* the caller's hasher, if any, is new: sha256.New() or xxhash.New()
InitSeq ==
    /\ pc = "seq"
    /\ hasher = [r \in Runs |-> <<>>]
    /\ ret = [r \in Runs |-> <<>>]
    /\ log = [r \in Runs |-> <<>>]
    /\ calls = <<>> /\ walk = <<>> /\ gen = <<>>
    /\ schema = RepoEnumNumber
    /\ withHasher \in {"", "sha256", "xxhash"}
    /\ m1 \in SeqMessages
    /\ m2 \in Vary(m1) \cup {NilMsg}
    /\ ignore \in IgnoreSets(m1.type)

SpecSeq == InitSeq /\ [][NextSeq]_vars

\* ---------------------------------------------------------------- auxiliary
Finished == pc = "done"
Bytes(run) == Flatten(log[run])
FieldBytes(run, num) == Flatten(SelectSeq(log[run], LAMBDA e : e.num = num))

MapSlots == {"MapStringString", "MapInt32String", "MapBoolString"}
AsSet(q) == {q[i] : i \in 1..Len(q)}

\* the same message content: equal slot by slot, maps compared as sets of
\* entries, whatever order their containers iterate in
SameContent(a, b) ==
    /\ a.type = b.type
    /\ \A slot \in DOMAIN a.v :
          IF slot \in MapSlots THEN AsSet(a.v[slot]) = AsSet(b.v[slot])
          ELSE a.v[slot] = b.v[slot]

\* the order on map keys that the documentation states
KeyBefore(keykind, a, b) ==
    CASE keykind = "bool" -> a = FALSE /\ b = TRUE
      [] keykind = "int32" -> a < b
      [] keykind = "string" ->
            \E i \in 1..Len(b) :
                /\ \A j \in 1..(i - 1) : j <= Len(a) /\ a[j] = b[j]
                /\ (i > Len(a) \/ a[i] < b[i])

\* the values of a map, listed by ascending key
ValuesByKey(keykind, mapv) ==
    LET entries == AsSet(mapv)
        rank(e) == 1 + Cardinality({f \in entries :
                                       KeyBefore(keykind, f.key, e.key)})
    IN [i \in 1..Len(mapv) |->
           (CHOOSE e \in entries : rank(e) = i).value]

RECURSIVE StringsBytes(_)
StringsBytes(strs) ==
    IF strs = <<>> THEN <<>>
    ELSE AppendString(Head(strs)) \o StringsBytes(Tail(strs))

MapFields(S) == SelectSeq(Fields(S, TAT), LAMBDA fd : fd.card = "map")

\* ------------------------------------------------------------------- claims

\* C1 (determinism): a message and a separately constructed copy with the
\* same content, hashed with the same ignore set and fresh hashers, feed the
\* hasher the same bytes and return the same digest, in the reflective
\* traversal and in the generated routine.
Determinism ==
    (Finished /\ SameContent(m1, m2)) =>
        /\ Bytes("sum1") = Bytes("sum2")
        /\ Bytes("gen1") = Bytes("gen2")
        /\ hasher["gen1"] = hasher["gen2"]
        /\ ret["sum1"][1].err = <<>> /\ ret["sum2"][1].err = <<>>
        /\ ret["sum1"][1].val = <<ret["sum2"][1].val>>

\* a copy whose maps iterate in another order has been hashed
DeterminismWitness ==
    /\ Finished
    /\ SameContent(m1, m2)
    /\ m1 # m2
    /\ Len(m1.v["MapInt32String"]) = 2
    /\ Bytes("sum1") # <<>>
    /\ Bytes("gen2") # <<>>

\* C2 (map-order invariance): the values of every map field that is not
\* ignored are written by ascending key (false before true, integers
\* numerically, strings byte-wise), by both strategies, so two maps with the
\* same entries produce the same bytes whatever their iteration order.
MapOrderInvariance ==
    (Finished /\ m1.type = TAT) =>
        \A i \in 1..Len(MapFields(schema)) :
            LET fd == MapFields(schema)[i]
                want1 == StringsBytes(ValuesByKey(fd.keykind, m1.v[fd.slot]))
                want2 == StringsBytes(ValuesByKey(fd.keykind, m2.v[fd.slot]))
            IN fd.full \notin ignore =>
                /\ FieldBytes("sum1", fd.number) = want1
                /\ FieldBytes("gen1", fd.number) = want1
                /\ FieldBytes("sum2", fd.number) = want2
                /\ FieldBytes("gen2", fd.number) = want2
                /\ (AsSet(m1.v[fd.slot]) = AsSet(m2.v[fd.slot]) =>
                        /\ FieldBytes("sum1", fd.number)
                             = FieldBytes("sum2", fd.number)
                        /\ FieldBytes("gen1", fd.number)
                             = FieldBytes("gen2", fd.number))

\* the same string-keyed map, iterated in descending and in ascending key
\* order, has been hashed by both strategies
MapOrderWitness ==
    /\ Finished
    /\ m1.type = TAT
    /\ m1.v["MapStringString"] = <<Entry(<<98>>, StrA), Entry(<<97, 98>>, StrB)>>
    /\ m2.v["MapStringString"] = <<Entry(<<97, 98>>, StrB), Entry(<<98>>, StrA)>>
    /\ ignore = {}
    /\ FieldBytes("sum1", 58) = <<1, 98, 1, 97>>
    /\ FieldBytes("gen2", 58) = <<1, 98, 1, 97>>

\* a field is named in the ignore set, by its own name or by its oneof's
Named(fd, ign) == fd.full \in ign \/ (fd.oneof # "" /\ fd.oneof \in ign)

\* two messages are equal except in the fields the ignore set names, at
\* every depth
RECURSIVE EqualExcept(_, _, _, _)
EqualExcept(S, a, b, ign) ==
    /\ a.type = b.type
    /\ \A i \in 1..Len(Fields(S, a.type)) :
          LET fd == Fields(S, a.type)[i] IN
          \/ Named(fd, ign)
          \/ /\ Has(a, fd) = Has(b, fd)
             /\ Has(a, fd) =>
                   IF fd.card = "map"
                   THEN AsSet(Get(a, fd)) = AsSet(Get(b, fd))
                   ELSE IF fd.card = "singular" /\ fd.kind = "message"
                   THEN EqualExcept(S, Get(a, fd), Get(b, fd), ign)
                   ELSE Get(a, fd) = Get(b, fd)

\* C3 (ignore equivalence): two messages that are equal except in fields
\* named in the ignore set, or in which member of a oneof named in it is set
\* and with what value, feed the same bytes and return the same digest when
\* hashed with that ignore set, by the reflective traversal and by the
\* generated routine.
IgnoreEquivalence ==
    (Finished /\ EqualExcept(schema, m1, m2, ignore)) =>
        /\ Bytes("sum1") = Bytes("sum2")
        /\ ret["sum1"][1].val = <<ret["sum2"][1].val>>
        /\ Bytes("gen1") = Bytes("gen2")

\* C4 (strategy parity): for every message and every ignore set the bytes
\* the generated HashPB routine writes are the bytes the reflective
\* traversal writes.
StrategyParity ==
    (Finished /\ ~IsNil(m1)) => Bytes("gen1") = Bytes("sum1")

\* the numbers of the populated fields that the ignore set does not name
PopulatedNumbers(S, m, ign) ==
    {Fields(S, m.type)[i].number : i \in
        {j \in 1..Len(Fields(S, m.type)) :
            /\ Has(m, Fields(S, m.type)[j])
            /\ ~Named(Fields(S, m.type)[j], ign)}}

Ascending(evs) == \A i \in 1..(Len(evs) - 1) : evs[i].num <= evs[i + 1].num

\* C5 (field order): the bytes of the populated, non-ignored fields of a
\* message are written in ascending field-number order, the populated
\* member of a oneof included, by the reflective traversal and by the
\* generated routine.
FieldOrder ==
    (Finished /\ ~IsNil(m1)) =>
        LET written(run) ==
                SelectSeq(log[run],
                    LAMBDA e : e.num \in PopulatedNumbers(schema, m1, ignore))
        IN Ascending(written("sum1")) /\ Ascending(written("gen1"))

\* two messages that differ only in which member of nested_type is set
UnionPair ==
    /\ m1.type = TAT /\ m2.type = TAT
    /\ Len(m1.v["NestedType"]) = 1 /\ Len(m2.v["NestedType"]) = 1
    /\ m1.v["NestedType"][1].member # m2.v["NestedType"][1].member
    /\ m2 = [m1 EXCEPT !.v["NestedType"] = m2.v["NestedType"]]

\* the names through which an ignore set reaches nested_type
UnionNames ==
    {NestedTypeOneof,
     "cerbos.hashpb.test.TestAllTypes.single_nested_message",
     "cerbos.hashpb.test.TestAllTypes.single_nested_enum",
     "cerbos.hashpb.test.TestAllTypes.NestedMessage.bb"}

\* a populated, non-ignored field is numbered between the two members
FieldBetween ==
    /\ schema = BetweenEnumNumber
    /\ m1.v["StandaloneEnum"] # 0
    /\ "cerbos.hashpb.test.TestAllTypes.standalone_enum" \notin ignore

\* the canonical bytes of the value of a set member of nested_type: the
\* varint of an enum number; of a NestedMessage the varint of bb, which the
\* reflective traversal leaves out when bb is 0
MemberBytes(w, reflective) ==
    IF w.member = "single_nested_enum" THEN AppendVarint(w.enum)
    ELSE IF reflective /\ w.msg[1].v["Bb"] = 0 THEN <<>>
    ELSE AppendVarint(w.msg[1].v["Bb"])

MemberIgnore ==
    (/\ Finished
     /\ m1.type = TAT
     /\ m2 = [m1 EXCEPT !.v["NestedType"] = m2.v["NestedType"]]
     /\ {"cerbos.hashpb.test.TestAllTypes.single_nested_message",
         "cerbos.hashpb.test.TestAllTypes.single_nested_enum"} \subseteq ignore
     /\ NestedTypeOneof \notin ignore) =>
        /\ Bytes("sum1") = Bytes("sum2")
        /\ Bytes("gen1") = Bytes("gen2")

\* m2 is m1 with one unset optional field set to its zero value
ZeroAgainstUnset ==
    /\ m1.type = TATO
    /\ \E i \in 1..Len(TestAllTypesOptionalFields) :
          LET fd == TestAllTypesOptionalFields[i] IN
          /\ ~Named(fd, ignore)
          /\ m1.v[fd.slot] = <<>>
          /\ m2 = [m1 EXCEPT !.v[fd.slot] = <<ZeroValue(fd.kind)>>]

\* C8 (explicit zero versus unset): a message with an optional scalar set
\* to its zero value feeds other bytes than the same message with the field
\* unset, in the reflective traversal and in the generated routine.
ExplicitZeroDiffers ==
    (Finished /\ ZeroAgainstUnset) =>
        /\ Bytes("sum1") # Bytes("sum2")
        /\ Bytes("gen1") # Bytes("gen2")

\* the claim's unpopulated fields
Unset(m, fd) ==
    IF fd.card = "singular" /\ fd.oneof = "" /\ fd.kind # "message"
    THEN m.v[fd.slot] = ZeroValue(fd.kind)
    ELSE m.v[fd.slot] = <<>>

\* a singular scalar outside a oneof, or a proto3 optional scalar
PlainScalar(fd) ==
    /\ fd.card = "singular" /\ fd.kind # "message"
    /\ (fd.oneof = "" \/ fd.synthetic)

NoFieldSet(S, m) ==
    \A i \in 1..Len(Fields(S, m.type)) : Unset(m, Fields(S, m.type)[i])

\* one zero byte for each plain scalar field that is not ignored
DefaultBytes(S, m, ign) ==
    LET scalars == SelectSeq(Fields(S, m.type),
                       LAMBDA fd : PlainScalar(fd) /\ fd.full \notin ign)
    IN [i \in 1..Len(scalars) |-> 0]

Sum64Unsupported ==
    (Finished /\ withHasher = "sha256" /\ ~IsNil(m1)) =>
        /\ ret["sum2"][1].err = errUnsupported
        /\ ret["sum2"][1].val = 0
        /\ ret["sum1"][1].err = <<>>
        /\ ret["sum1"][1].val = <<Digest("sha256", Bytes("sum1"))>>

\* both entry points have returned for a message that writes bytes, hashed
\* with sha256
Sum64UnsupportedWitness ==
    /\ Finished /\ withHasher = "sha256" /\ ~IsNil(m1)
    /\ Bytes("sum2") # <<>>
    /\ ret["sum2"][1].err = errUnsupported
    /\ ret["sum1"][1].err = <<>>

\* the only populated fields are the string "ab" and the int32 5
AbAndFive ==
    /\ m1.type = SI
    /\ m1.v["Text"] = <<97, 98>> /\ m1.v["Count"] = 5 /\ m1.v["Extra"] = 0

Alone(c) == hash(schema, calls[c].pb, calls[c].names, 0)

\* C13 (interleaved calls): two calls of Sum with their own hashers and
\* different ignore sets, their steps interleaved in any order: each call
\* that has returned has written exactly the bytes it writes when run alone
\* and returns the digest of those bytes, and at every step a call's
\* pbHasher holds no name of the other call's ignore set.
Isolation ==
    \A c \in DOMAIN calls :
        /\ calls[c].ph.ignoreFields \subseteq calls[c].names
        /\ calls[c].ph.absorbed =
              Flatten(SubSeq(Alone(c).ev, 1, calls[c].n))
        /\ calls[c].stage = "returned" =>
              /\ calls[c].ph.absorbed = Flatten(Alone(c).ev)
              /\ calls[c].out.val =
                    <<Digest("xxhash", Flatten(Alone(c).ev))>>

\* both calls have returned, each wrote between two writes of the other,
\* and the ignore sets made them write different bytes
IsolationWitness ==
    /\ DOMAIN calls = Callers
    /\ \A c \in Callers : calls[c].stage = "returned" /\ calls[c].mixed
    /\ calls["A"].ph.absorbed # calls["B"].ph.absorbed

\* C14 (HashPB on a nil receiver): the generated HashPB method called on a
\* nil message pointer returns normally and writes zero bytes to the hasher,
\* whatever the ignore set, the empty (nil) one included.
NilReceiver ==
    /\ (ret["gen1"] # <<>> /\ IsNil(m1)) =>
          /\ ret["gen1"][1].err = <<>>
          /\ hasher["gen1"] = <<>> /\ log["gen1"] = <<>>
    /\ (ret["gen2"] # <<>> /\ IsNil(m2)) =>
          /\ ret["gen2"][1].err = <<>>
          /\ hasher["gen2"] = <<>> /\ log["gen2"] = <<>>

\* HashPB has returned twice for a nil receiver and a nil ignore set
NilReceiverWitness ==
    /\ Finished /\ IsNil(m1) /\ IsNil(m2) /\ ignore = {}
    /\ ret["gen1"][1].fn = "HashPB" /\ ret["gen2"][1].fn = "HashPB"
    /\ hasher["gen1"] = <<>>

\* the varints of the elements of an int32 list, in list order
RECURSIVE VarintsInOrder(_)
VarintsInOrder(list) ==
    IF list = <<>> THEN <<>>
    ELSE AppendVarint(Head(list)) \o VarintsInOrder(Tail(list))

\* the two messages differ only in the order of the elements of
\* repeated_int32
Reordered ==
    /\ m1.type = TAT /\ m2.type = TAT
    /\ m1.v["RepeatedInt32"] # m2.v["RepeatedInt32"]
    /\ Len(m1.v["RepeatedInt32"]) = Len(m2.v["RepeatedInt32"])
    /\ AsSet(m1.v["RepeatedInt32"]) = AsSet(m2.v["RepeatedInt32"])
    /\ Cardinality(AsSet(m1.v["RepeatedInt32"])) = Len(m1.v["RepeatedInt32"])
    /\ \A s \in DOMAIN m1.v \ {"RepeatedInt32"} : m1.v[s] = m2.v[s]

\* C15 (list order): both strategies write the elements of a repeated field
\* in list order, unsorted, so two messages whose repeated field holds the
\* same distinct elements in a different order feed different bytes to the
\* hasher.
ListOrder ==
    /\ (Finished /\ m1.type = TAT) =>
          /\ FieldBytes("sum1", 31) = VarintsInOrder(m1.v["RepeatedInt32"])
          /\ FieldBytes("gen1", 31) = VarintsInOrder(m1.v["RepeatedInt32"])
    /\ (Finished /\ Reordered) =>
          /\ Bytes("sum1") # Bytes("sum2")
          /\ hasher["gen1"] # hasher["gen2"]

\* <<2, 1>> and <<1, 2>> have been hashed by both strategies
ListOrderWitness ==
    /\ Finished /\ Reordered
    /\ m1.v["RepeatedInt32"] = <<2, 1>>
    /\ FieldBytes("sum1", 31) = <<2, 1>>
    /\ FieldBytes("gen2", 31) = <<1, 2>>

\* the value of an unpopulated field
UnsetValue(fd) ==
    IF fd.card = "singular" /\ fd.oneof = "" /\ fd.kind # "message"
    THEN ZeroValue(fd.kind)
    ELSE <<>>

\* msg without its named fields at any depth: every populated field that the
\* ignore set names is cleared, every other message field is stripped in
\* turn
RECURSIVE Strip(_, _, _)
StripField(S, msg, ign, fd) ==
    IF Named(fd, ign) THEN UnsetValue(fd)
    ELSE IF fd.kind = "message" /\ fd.card = "singular"
    THEN IF fd.oneof # ""
         THEN <<Wrapper(fd.name, 0, <<Strip(S, Get(msg, fd), ign)>>)>>
         ELSE <<Strip(S, Get(msg, fd), ign)>>
    ELSE msg.v[fd.slot]

StripSlot(S, msg, ign, populated) ==
    IF populated = <<>> THEN <<>> ELSE StripField(S, msg, ign, populated[1])

Strip(S, msg, ign) ==
    [type |-> msg.type,
     v |-> [s \in DOMAIN msg.v |->
              IF \E i \in 1..Len(Fields(S, msg.type)) :
                    Fields(S, msg.type)[i].slot = s
                    /\ Has(msg, Fields(S, msg.type)[i])
              THEN StripSlot(S, msg, ign,
                             SelectSeq(Fields(S, msg.type),
                                 LAMBDA fd : fd.slot = s /\ Has(msg, fd)))
              ELSE msg.v[s]]]

\* the ignore set names a field that is populated below the top level
NamedBelow ==
    /\ ~IsNil(m1) /\ Strip(schema, m1, ignore) # m1
    /\ \A i \in 1..Len(Fields(schema, m1.type)) :
          Has(m1, Fields(schema, m1.type)[i]) =>
              ~Named(Fields(schema, m1.type)[i], ignore)

\* C16 (ignore set at every depth): a field named in the ignore set
\* contributes no bytes in any instance of its message type, at the top
\* level or nested, and an ignored message field is not recursed into: each
\* strategy writes what it writes for the message with every named field
\* cleared at every depth.
IgnoredAtEveryDepth ==
    (Finished /\ ~IsNil(m1)) =>
        /\ Bytes("sum1") =
              Flatten(hash(schema, Strip(schema, m1, ignore), {}, 0).ev)
        /\ Bytes("gen1") =
              Flatten(HashPB(schema, Strip(schema, m1, ignore), ignore))

\* the reflective half of C16
IgnoredAtEveryDepthReflective ==
    (Finished /\ ~IsNil(m1)) =>
        Bytes("sum1") =
            Flatten(hash(schema, Strip(schema, m1, ignore), {}, 0).ev)

\* the generated half of C16 for ignore sets that name no member of a oneof
IgnoredAtEveryDepthGenerated ==
    (/\ Finished /\ ~IsNil(m1)
     /\ ignore \cap {"cerbos.hashpb.test.TestAllTypes.single_nested_message",
                     "cerbos.hashpb.test.TestAllTypes.single_nested_enum"}
            = {}) =>
        Bytes("gen1") =
            Flatten(HashPB(schema, Strip(schema, m1, ignore), ignore))

IgnoredBelowWitness == Finished /\ NamedBelow

\* the WithGroup message the traversal of m1 reaches with its group field
\* populated and not ignored, if any
ReachedGroup ==
    IF m1.type = WG
    THEN (IF m1.v["Body"] # <<>>
             /\ "cerbos.hashpb.test.WithGroup.body" \notin ignore
          THEN <<m1>> ELSE <<>>)
    ELSE IF m1.type = GH /\ m1.v["Inner"] # <<>>
            /\ "cerbos.hashpb.test.GroupHolder.inner" \notin ignore
            /\ m1.v["Inner"][1].v["Body"] # <<>>
            /\ "cerbos.hashpb.test.WithGroup.body" \notin ignore
    THEN m1.v["Inner"] ELSE <<>>

\* the bytes of the field numbered below the group field
BeforeGroup(w) ==
    IF w.v["Before"] # 0 /\ "cerbos.hashpb.test.WithGroup.before" \notin ignore
    THEN AppendVarint(w.v["Before"]) ELSE <<>>

\* the error names the field: "failed to write value of <full name>: ..."
NamesField(err, full) ==
    \E i \in 1..(Len(err) - 1) :
        err[i] = "failed to write value of" /\ err[i + 1] = full

\* C17 (field kind without an encoding rule): when the reflective traversal
\* reaches a populated, non-ignored group field, Sum and Sum64 return an
\* error that names the fully-qualified field and no digest (nil, 0), and
\* the hasher has received the bytes of the fields before it only: nothing
\* for the group field, nothing for any field after it, at either level.
UnsupportedKind ==
    (Finished /\ ReachedGroup # <<>>) =>
        /\ NamesField(ret["sum1"][1].err, "cerbos.hashpb.test.WithGroup.body")
        /\ ret["sum1"][1].err[Len(ret["sum1"][1].err) - 1]
              = "unsupported field kind"
        /\ ret["sum1"][1].val = <<>>
        /\ ret["sum2"][1].err = ret["sum1"][1].err
        /\ ret["sum2"][1].val = 0
        /\ Bytes("sum1") = BeforeGroup(ReachedGroup[1])
        /\ Bytes("sum2") = BeforeGroup(ReachedGroup[1])
        /\ withHasher # "" => hasher["sum1"] = BeforeGroup(ReachedGroup[1])

\* a group field inside a nested message has been reached, with fields set
\* before and after it at both levels
UnsupportedKindWitness ==
    /\ Finished /\ ReachedGroup # <<>>
    /\ m1.type = GH /\ m1.v["Tail"] = 5
    /\ ReachedGroup[1].v["Before"] = 5 /\ ReachedGroup[1].v["After"] = 5
    /\ ignore = {} /\ withHasher = "sha256"
    /\ hasher["sum1"] = <<5>>
    /\ NamesField(ret["sum1"][1].err, "cerbos.hashpb.test.GroupHolder.inner")

\* no error and nothing written when the group field is unpopulated or
\* ignored
UnreachedGroupHashes ==
    (Finished /\ ReachedGroup = <<>>) => ret["sum1"][1].err = <<>>

\* one more level, or still no end in sight
Deeper(d) == IF d = -1 THEN -1 ELSE d + 1

\* the number of messages on the chain of populated, non-ignored child
\* fields from n, or -1 if the chain comes back to a message on it
RECURSIVE ChainLen(_, _)
ChainLen(n, fuel) ==
    IF ~childSet(n) THEN 1
    ELSE IF fuel = 0 THEN -1
    ELSE Deeper(ChainLen(walk.heap[n].child, fuel - 1))

NestingDepth == ChainLen(1, MaxNodes)
Acyclic == NestingDepth # -1

\* the message at n as a value, for a chain that ends
RECURSIVE ValueOf(_)
ValueOf(n) ==
    [type |-> NTAT,
     v |-> [Child |-> IF childSet(n)
                      THEN <<ValueOf(walk.heap[n].child)>> ELSE <<>>,
            Payload |-> walk.heap[n].payload]]

WalkDone == walk.status = "done"

\* C18 (termination): on an acyclic message value, values of the
\* self-referential NestedTestAllTypes included, the traversal returns a
\* digest after finitely many writes, the bytes of the recursive definition
\* of hash, and never has more activations of hash than the data has
\* levels; there is no cycle detection, so on a message whose child chain
\* comes back to itself the traversal never returns and no digest exists.
Termination ==
    /\ [](Acyclic => /\ walk.deepest <= NestingDepth
                     /\ Len(walk.stack) <= NestingDepth
                     /\ walk.status # "crashed")
    /\ [](WalkDone =>
            /\ walk.written = Flatten(hash(schema, ValueOf(1), ignore, 0).ev)
            /\ walk.digest = <<Digest("xxhash", walk.written)>>)
    /\ (Acyclic ~> WalkDone)
    /\ [](~Acyclic => ~WalkDone /\ walk.digest = <<>>)

\* a chain of MaxNodes messages has been hashed to the end, with a payload
\* written
TerminationWitness ==
    /\ walk # <<>> /\ WalkDone /\ Acyclic
    /\ NestingDepth = MaxNodes /\ walk.deepest = MaxNodes
    /\ walk.written # <<>>

\* the traversal of a message that is its own child has died
CycleReached ==
    /\ walk # <<>> /\ walk.status = "crashed"
    /\ walk.heap[1].child = 1

\* the varint of the number whose 32-bit pattern is that of u, taken as
\* unsigned: a negative u stands for 2^32 + u, which takes four continuation
\* groups and a final group holding bits 28 to 31
VarintOfUint32(u) ==
    IF u >= 0 THEN UVarint(u)
    ELSE SignExtGroups(u, 4) \o <<(u \div 268435456) % 16>>

\* the sample a uint32 field holds the pattern of
SampleOf(x) == CHOOSE u \in Int32Samples : Word(u, 32) = x

\* what the run has written for the populated integer fields of m
WidenedBy(run, m) ==
    /\ m.v["SingleInt32"] # 0 =>
          /\ FieldBytes(run, 1) = AppendVarint(m.v["SingleInt32"])
          /\ m.v["SingleInt32"] < 0 => Len(FieldBytes(run, 1)) = 10
    /\ m.v["StandaloneEnum"] # 0 =>
          /\ FieldBytes(run, 22) = AppendVarint(m.v["StandaloneEnum"])
          /\ m.v["StandaloneEnum"] < 0 => Len(FieldBytes(run, 22)) = 10
    /\ m.v["SingleUint32"] # Zeros(32) =>
          /\ FieldBytes(run, 3) =
                VarintOfUint32(SampleOf(m.v["SingleUint32"]))
          /\ Len(FieldBytes(run, 3)) <= 5
    /\ (/\ m.v["SingleInt32"] # 0
        /\ m.v["SingleInt32"] = m.v["SingleInt64"]
        /\ "cerbos.hashpb.test.TestAllTypes.single_int64" \notin ignore) =>
          FieldBytes(run, 1) = FieldBytes(run, 2)

\* C19 (integer widening): an int32 or enum value is written as the varint
\* of the value sign-extended to 64 bits, a uint32 value as the varint of
\* the value zero-extended; an int32 and an int64 field holding the same
\* number get the same bytes, a negative int32 or enum value gets ten
\* bytes, and the reflective and the generated encoder write the same bytes
\* for every populated integer field.
IntegerWidening ==
    (Finished /\ m1.type = TATI) =>
        /\ WidenedBy("sum1", m1)
        /\ WidenedBy("gen1", m1)
        /\ \A i \in 1..Len(IntegerFields) :
              (Has(m1, IntegerFields[i])
               /\ IntegerFields[i].full \notin ignore) =>
                 FieldBytes("sum1", IntegerFields[i].number)
                    = FieldBytes("gen1", IntegerFields[i].number)

\* the smallest int32 in the int32, int64 and enum fields and the largest
\* uint32 have been hashed by both strategies
IntegerWideningWitness ==
    /\ Finished /\ m1.type = TATI /\ ignore = {}
    /\ m1.v["SingleInt32"] = MinInt32 /\ m1.v["SingleInt64"] = MinInt32
    /\ m1.v["StandaloneEnum"] = -1
    /\ m1.v["SingleUint32"] = Word(-1, 32)
    /\ FieldBytes("sum1", 1) =
          <<128, 128, 128, 128, 248, 255, 255, 255, 255, 1>>
    /\ FieldBytes("gen1", 3) = <<255, 255, 255, 255, 15>>

\* the types reachable through fields, map fields included, from the
\* top-level messages
RECURSIVE ReachableFrom(_, _)
ReachableFrom(seen, fuel) ==
    IF fuel = 0 THEN seen
    ELSE ReachableFrom(
             seen \cup {j \in TypeIds :
                          \E i \in seen : gen.types[i].links[j] # "none"},
             fuel - 1)

Reachable == ReachableFrom({gen.roots[i] : i \in 1..Len(gen.roots)}, MaxTypes)

Generated == gen.status = "done"

\* exactly one helper for each reachable type, none for a map entry
OneHelperPerType ==
    /\ gen.helpers = {Message(t) : t \in Reachable}
    /\ Cardinality(gen.col) = Cardinality(Reachable)
    /\ \A e \in gen.col : ~e.msg.mapEntry

\* C20 (helper collection): on every graph of message types, self-referential
\* and mutually recursive types and types reached through map values
\* included, the collection terminates and the plugin emits exactly one
\* helper for each message type reachable through fields from the top-level
\* messages and none for a map-entry type.
HelperCollection ==
    /\ <>Generated
    /\ [](Generated => OneHelperPerType)

\* no two reachable types share the name of their helper function
DistinctFuncNames ==
    \A i, j \in Reachable :
        i # j => sumFuncName(gen.types[i].name) # sumFuncName(gen.types[j].name)

\* C20 holds on the graphs whose reachable types have distinct function
\* names; the collection terminates on all of them
HelperCollectionDistinct ==
    /\ <>Generated
    /\ [](Generated /\ DistinctFuncNames => OneHelperPerType)
    /\ [](Len(gen.stack) <= 2 * MaxTypes + 1)

\* two mutually recursive types, one reached through a map value, have
\* their helpers
HelperCollectionWitness ==
    /\ gen # <<>> /\ Generated /\ DistinctFuncNames
    /\ gen.types[1].links[MaxTypes] = "map"
    /\ gen.types[MaxTypes].links[1] = "field"
    /\ gen.types[1].links[1] = "field"
    /\ gen.roots = <<1>>
    /\ Cardinality(gen.helpers) = 2

\* two reachable types share a function name
NameCollisionReached ==
    /\ gen # <<>> /\ Generated /\ ~DistinctFuncNames
    /\ Cardinality(gen.helpers) < Cardinality(Reachable)

Emitted == gen.status = "emitted"

\* the types whose helper a helper of type t calls: the types of its
\* message fields and of the values of its map fields
calledBy(t) == {j \in TypeIds : gen.types[t].links[j] # "none"}

\* every helper that a generated helper calls is generated
HelpersClosed ==
    \A h \in gen.helpers : \A j \in calledBy(h.type) :
        \E k \in gen.helpers :
            sumFuncName(gen.types[k.type].name)
                = sumFuncName(gen.types[j].name)

\* the helper that the method of each type calls is generated for that type
MethodsHaveHelpers ==
    \A m \in gen.methods :
        \E h \in gen.helpers :
            /\ h.type = m.of
            /\ sumFuncName(gen.types[h.type].name) = m.calls

\* C21 (closed generated code): for every message type that gets a HashPB
\* method, the helper the method calls is generated too, and so is every
\* helper that a generated helper calls, also for types declared nested
\* inside another message that no field uses as its type.
GeneratedCodeClosed ==
    gen # <<>> /\ Emitted => MethodsHaveHelpers /\ HelpersClosed

\* a type with a method that is nested in another message and is the type
\* of no field
UnusedNested(t) ==
    /\ gen.types[t].parent > 0
    /\ \E m \in gen.methods : m.of = t
    /\ \A i \in TypeIds : gen.types[i].links[t] = "none"

\* the types whose methods are reached by fields from a top-level message,
\* or are top-level themselves, have their helpers, and the helpers are
\* closed under their calls
ClosedButForUnusedNested ==
    gen # <<>> /\ Emitted =>
        /\ HelpersClosed
        /\ \A m \in gen.methods :
              m.of \in Reachable =>
                  \E h \in gen.helpers : h.type = m.of
        /\ \A m \in gen.methods :
              m.of \notin Reachable =>
                  /\ gen.types[m.of].parent > 0
                  /\ \A h \in gen.helpers : h.type # m.of

\* a method was generated for a nested type that no field uses, and no
\* helper
UnusedNestedReached ==
    /\ gen # <<>> /\ Emitted
    /\ \E t \in TypeIds :
          UnusedNested(t) /\ \A h \in gen.helpers : h.type # t

\* the bytes one call on pb writes to its hasher
Canonical(pb) ==
    IF IsNil(pb) THEN <<>> ELSE Flatten(hash(schema, pb, ignore, 0).ev)

\* the bytes of the first n calls, in call order
RECURSIVE CanonicalUpTo(_)
CanonicalUpTo(n) ==
    IF n = 0 THEN <<>>
    ELSE CanonicalUpTo(n - 1) \o Canonical(ret["sum1"][n].pb)

\* the digest a call returned: the bytes Sum appended, the number Sum64 gave
digestOf(r) == IF r.fn = "Sum" THEN r.val[1] ELSE r.val

CallsMade == Len(ret["sum1"])
AllSucceeded == \A i \in 1..CallsMade : ret["sum1"][i].err = <<>>

\* the caller's hasher holds every call's bytes in call order, and each call
\* returned the digest of what the hasher held by then
Accumulated ==
    /\ hasher["sum1"] = CanonicalUpTo(CallsMade)
    /\ \A i \in 1..CallsMade :
          digestOf(ret["sum1"][i]) = Digest(withHasher, CanonicalUpTo(i))

\* every call returned the digest of its own bytes alone
Fresh ==
    \A i \in 1..CallsMade :
        digestOf(ret["sum1"][i])
            = Digest("xxhash", Canonical(ret["sum1"][i].pb))

\* two calls in a row on the same message
Repeated(i) == i < CallsMade /\ ret["sum1"][i].pb = ret["sum1"][i + 1].pb

\* C22 as stated (no reset): Sum and Sum64 never reset the hasher. With a
\* hasher of the caller's, after any sequence of successful calls the hasher
\* has absorbed every call's bytes in call order, so that repeating a call
\* on the same message returns a different digest; with no hasher option
\* every call starts from a new hasher and its digest does not depend on
\* earlier calls.
NeverResetAlwaysDiffers ==
    pc = "seq" /\ AllSucceeded =>
        IF withHasher = "" THEN Fresh
        ELSE /\ Accumulated
             /\ \A i \in 1..CallsMade :
                   Repeated(i) =>
                       digestOf(ret["sum1"][i]) # digestOf(ret["sum1"][i + 1])

\* C22 (no reset): as above, but the repeated call is given more to digest,
\* and so returns another digest, only when the message writes at least one
\* byte; on a message that writes none (nothing populated, or everything
\* ignored) the repeated call returns the same digest.
NeverReset ==
    pc = "seq" /\ AllSucceeded =>
        IF withHasher = "" THEN Fresh
        ELSE /\ Accumulated
             /\ \A i \in 1..CallsMade :
                   Repeated(i) =>
                       (digestOf(ret["sum1"][i]) # digestOf(ret["sum1"][i + 1])
                           <=> Canonical(ret["sum1"][i].pb) # <<>>)

\* Sum and then Sum64 on the same populated message with the caller's
\* xxhash: the hasher holds the bytes twice and the digests differ
NeverResetWitness ==
    /\ pc = "seq" /\ withHasher = "xxhash" /\ CallsMade = 2 /\ AllSucceeded
    /\ ret["sum1"][1].fn = "Sum" /\ ret["sum1"][2].fn = "Sum64"
    /\ Repeated(1) /\ Canonical(ret["sum1"][1].pb) # <<>>
    /\ hasher["sum1"] = Canonical(ret["sum1"][1].pb)
                          \o Canonical(ret["sum1"][1].pb)
    /\ digestOf(ret["sum1"][1]) # digestOf(ret["sum1"][2])

\* a call repeated on a message that writes nothing, with the caller's
\* hasher, returns the same digest
SameDigestReached ==
    /\ pc = "seq" /\ withHasher # "" /\ CallsMade = 2 /\ AllSucceeded
    /\ Repeated(1) /\ Canonical(ret["sum1"][1].pb) = <<>>
    /\ digestOf(ret["sum1"][1]) = digestOf(ret["sum1"][2])

\* the slots of a TestAllTypes message that are not maps
PlainSlots(m) == DOMAIN m.v \ MapSlots

\* the two messages agree outside their maps, and every map lists the same
\* values by ascending key
SameValuesByKey(a, b) ==
    /\ a.type = TAT /\ b.type = TAT
    /\ \A slot \in PlainSlots(a) : a.v[slot] = b.v[slot]
    /\ \A i \in 1..Len(MapFields(schema)) :
          ValuesByKey(MapFields(schema)[i].keykind,
                      a.v[MapFields(schema)[i].slot])
            = ValuesByKey(MapFields(schema)[i].keykind,
                          b.v[MapFields(schema)[i].slot])

\* some map of the two messages has other keys
KeySetsDiffer(a, b) ==
    \E slot \in MapSlots :
        {e.key : e \in AsSet(a.v[slot])} # {e.key : e \in AsSet(b.v[slot])}

\* C23 (map keys are not written): only the values of a map are written, so
\* two messages whose maps list the same values by ascending key feed the
\* hasher the same bytes, and return the same digest, even when the key sets
\* of the maps differ; in the reflective traversal and in the generated
\* routine.
MapKeysUnwritten ==
    (Finished /\ SameValuesByKey(m1, m2)) =>
        /\ Bytes("sum1") = Bytes("sum2")
        /\ Bytes("gen1") = Bytes("gen2")
        /\ ret["sum1"][1].val = <<ret["sum2"][1].val>>
        /\ \A i \in 1..Len(MapFields(schema)) :
              MapFields(schema)[i].full \notin ignore =>
                  Len(FieldBytes("sum1", MapFields(schema)[i].number))
                    = Len(StringsBytes(
                          entryValues(m1.v[MapFields(schema)[i].slot])))

\* {1: "a"} and {2: "a"} in map_int32_string have been hashed by both
\* strategies: the same byte sequence 01 61
MapKeysUnwrittenWitness ==
    /\ Finished /\ ignore = {}
    /\ SameValuesByKey(m1, m2) /\ KeySetsDiffer(m1, m2)
    /\ Len(m1.v["MapInt32String"]) = 1
    /\ Len(m2.v["MapInt32String"]) = 1
    /\ m1.v["MapInt32String"][1].key # m2.v["MapInt32String"][1].key
    /\ Bytes("sum1") = <<1, 97>> /\ Bytes("sum2") = <<1, 97>>
    /\ Bytes("gen2") = Bytes("gen1")

\* distinct full names have distinct helper function names
InjectiveOn(ids) ==
    \A i, j \in ids :
        gen.types[i].name # gen.types[j].name =>
            sumFuncName(gen.types[i].name) # sumFuncName(gen.types[j].name)

\* every reachable type has a helper of its own
OwnHelpers == \A t \in Reachable : Message(t) \in gen.helpers

\* C24 (unique helper names): distinct message full names map to distinct
\* helper function names, so no reachable message type is left without its
\* own helper because the full name of another type maps to the same
\* identifier.
HelperNamesUnique ==
    Generated => InjectiveOn(Reachable) /\ OwnHelpers

\* the full names that have no "_" of their own
Plain(t) == \A k \in 1..Len(gen.types[t].name) : gen.types[t].name[k] # "_"

\* among full names without "_" the function names are distinct, and a
\* reachable type lacks its helper only when its function name is that of
\* another reachable type
UniqueAmongPlainNames ==
    /\ InjectiveOn({t \in TypeIds : Plain(t)})
    /\ Generated =>
          \A t \in Reachable :
              Message(t) \notin gen.helpers =>
                  \E u \in Reachable :
                      /\ u # t /\ Message(u) \in gen.helpers
                      /\ sumFuncName(gen.types[u].name)
                           = sumFuncName(gen.types[t].name)

\* x.y.Z has its helper and x_y.Z, reached through a field of x.y.Z, has
\* none: both names map to x_y_Z_hashpb_sum
HelperTakenReached ==
    /\ Generated
    /\ gen.types[1].name = <<"x", ".", "y", ".", "Z">>
    /\ gen.types[MaxTypes].name = <<"x", "_", "y", ".", "Z">>
    /\ gen.types[1].links[MaxTypes] = "field"
    /\ sumFuncName(gen.types[1].name) = sumFuncName(gen.types[MaxTypes].name)
    /\ Message(1) \in gen.helpers
    /\ Message(MaxTypes) \notin gen.helpers

====
